---- MODULE Spec2Model ----
(***************************************************************************)
(* Melvins Club (nyoroku/clubby): challenge winner selection, pack-code    *)
(* scanning with estate-card reveal, and the "one active collection" rule. *)
(*                                                                         *)
(* The database is modelled as committed rows plus, for requests that run  *)
(* inside transaction.atomic(), the row locks they hold and the writes     *)
(* they have not committed yet (READ COMMITTED: a statement sees committed *)
(* rows and the transaction's own writes; a write to a row locked by       *)
(* another transaction waits for that transaction to end).  Statements     *)
(* outside transaction.atomic() run in autocommit mode: each one is        *)
(* committed as soon as it is executed.                                    *)
(***************************************************************************)
EXTENDS Integers, Sequences, FiniteSets, TLC

(***************************************************************************)
(* Bounds of the model                                                     *)
(***************************************************************************)
MaxWinners == 2
MaxRequests == 2
MaxScans == 2
MaxTime == 1

Profiles == {"p1", "p2", "p3"}
Reqs == {"r1", "r2"}
\* the workers that serve requests: a new request goes to the first idle one
Earlier(r) == IF r = "r2" THEN {"r1"} ELSE {}
TakesRequest(pc, r) == pc[r] = "idle" /\ \A q \in Earlier(r) : pc[q] # "idle"
NoProfile == "none"

(***************************************************************************)
(* Profile attributes read by the draw (models.py Profile)                 *)
(***************************************************************************)
\* Profile.referred_by: p3 was referred by p2
ReferredBy == [p \in Profiles |-> IF p = "p3" THEN "p2" ELSE NoProfile]
\* Profile.county
County == [p \in Profiles |-> IF p = "p1" THEN "nairobi" ELSE "mombasa"]

VARIABLES
    now,                \* timezone.now()
    points,             \* Profile.points (committed)
    profile_completed,  \* Profile.profile_completed
    scans,              \* the Scan rows (committed)
    challenge,          \* the Challenge row
    winners,            \* the ChallengeWinner rows of the challenge
    nreq,               \* number of draw requests made so far
    dpc,                \* draw request: position in the handler
    dkind,              \* draw request: "view" or "ajax"
    dself,              \* draw request: the Challenge object it loaded
    drecs,              \* draw request: winner_records created so far
    dhad,               \* draw request: it was invoked when winners were
                        \* recorded and no other draw request was running
                        \* (history, not program state)
    response,           \* the last response a draw request returned
    packs,              \* the PackCode rows (committed)
    collections,        \* the EstateCollection rows
    ucc,                \* the UserCardCollection rows (committed)
    completions,        \* the CollectionCompletion rows (committed)
    partner_total,      \* Partnership.total_points_earned (committed)
    ledger,             \* the point credits committed so far (history)
    nscan,              \* number of scan requests made so far
    spc,                \* scan request: position in the handler
    sprofile,           \* scan request: request.user.profile
    scode,              \* scan request: the submitted code
    sloaded,            \* scan request: profile.points of the loaded object
    srevealed,          \* scan request: what reveal_card_for_scan returned
    tx,                 \* scan request: locks held and uncommitted writes
    sresponse,          \* the last response a scan request returned
    cpc,                \* collection save: position in EstateCollection.save
    cself,              \* collection save: the object being saved
    calc,               \* the last call of a side-effect free method: what was
                        \* called, on what, and what it returned
    dprofiles,          \* draw request: the evaluated list of eligible
                        \* profiles, each with the points it was loaded with
    entries,            \* the ChallengeEntry rows of the challenge
    registered,         \* the phones that have a Profile row
    fee,                \* PointTransferSettings.transfer_fee_percentage
    transfers,          \* the PointTransfer rows (committed)
    invites,            \* the PendingInvite rows (committed)
    redemptions,        \* the Redemption and ProductRedemption rows (committed)
    nops,               \* number of point requests made so far
    tpc,                \* point request: position in the handler
    tself,              \* point request: the objects and values it holds
    referred_by,        \* Profile.referred_by of the profiles that register
    stock,              \* ProductListing.stock_quantity
    held,               \* what each invite took from its inviter when it
                        \* was created (history, not program state)
    released,           \* the refunds and credits paid out for the invites
                        \* (history, not program state)
    gifts,              \* the CardGift rows
    gpc,                \* gift claim: position in CardGift.claim
    gself               \* gift claim: the objects it holds

chVars == <<challenge, winners, nreq, dpc, dkind, dself, drecs, dhad, response, dprofiles>>
profVars == <<points, profile_completed, scans>>
cardVars == <<packs, collections, ucc, completions, partner_total, ledger>>
scanVars == <<nscan, spc, sprofile, scode, sloaded, srevealed, tx, sresponse>>
saveVars == <<cpc, cself>>
calcVars == <<calc>>
entryVars == <<entries>>
pointVars == <<registered, fee, transfers, invites, redemptions, nops, tpc, tself,
               referred_by, stock, held, released>>
giftVars == <<gifts, gpc, gself>>
vars == <<now, profVars, chVars, cardVars, scanVars, saveVars, calcVars, entryVars,
          pointVars, giftVars>>

(***************************************************************************)
(* Challenge (models.py)                                                   *)
(***************************************************************************)
Unclamped(a, b) == a
Max(a, b) == IF a >= b THEN a ELSE b

\* Count('scan') of a profile
scan_count(p) == Cardinality({s \in scans : s.profile = p})

\* Profile.successful_referrals_count
successful_referrals_count(p) ==
    Cardinality({q \in Profiles : ReferredBy[q] = p /\ profile_completed[q]})

\* Challenge.get_eligible_profiles.  counties is the list parsed from
\* counties_eligible; the empty set stands for the blank field.
completed_profiles(ch) == {p \in Profiles : profile_completed[p]}
get_eligible_profiles(ch) ==
    {p \in Profiles :
        /\ profile_completed[p]
        /\ (ch.min_points_required > 0 => points[p] >= ch.min_points_required)
        /\ (ch.min_scans_required > 0 => scan_count(p) >= ch.min_scans_required)
        /\ (ch.counties_eligible # {} => County[p] \in ch.counties_eligible)}

\* Challenge.calculate_entry_weight, in units of 1/100000 (points_weight and
\* referrals_weight are held in hundredths, as DecimalField(5, 2)).
WeightUnit == 100000
entry_weight(ch, profile_points, referral_count) ==
    LET w0 == WeightUnit
        w1 == IF profile_points > 0 THEN w0 + profile_points * ch.points_weight ELSE w0
        w2 == IF referral_count > 0
              THEN w1 + referral_count * ch.referrals_weight * 1000 ELSE w1
    IN Max(w2, WeightUnit)

\* the method on a profile as the database holds it now
calculate_entry_weight(ch, p) ==
    entry_weight(ch, points[p], successful_referrals_count(p))

\* a value written to a DecimalField with decimal_places = 2 is rounded to
\* hundredths, ties to the even hundredth
two_decimal_places(w) ==
    LET q == w \div 1000
        rest == w % 1000
    IN IF rest > 500 \/ (rest = 500 /\ q % 2 = 1) THEN (q + 1) * 1000 ELSE q * 1000

\* random.choices(profiles, weights, k): k independent weighted picks, with
\* replacement; every sequence over the candidates of positive weight can
\* come out.  The picks being independent, the loop over the result draws
\* each pick (k = 1) when it reaches its position.
random_choices(ch, cands, k) ==
    [1..k -> {p \in cands : calculate_entry_weight(ch, p) > 0}]

\* unique_together = ['challenge', 'profile'] on ChallengeWinner
WinnerInsertUnchecked(p) == TRUE
WinnerInsertAllowed(p) == \A w \in winners : w.profile # p

\* the profile objects of the evaluated queryset: what each was loaded with
NoSnapshot == [p \in {} |-> 0]
Snapshot(ps) == [p \in ps |-> points[p]]

\* calculate_entry_weight on a profile object of the evaluated queryset: its
\* points are those it was loaded with, its referrals are counted by a query
stored_entry_weight(r, p) ==
    LET stored == {e \in entries : e.profile = p}
    IN  IF stored = {}
        THEN entry_weight(dself[r], dprofiles[r][p], successful_referrals_count(p))
        ELSE (CHOOSE e \in stored : TRUE).entry_weight
loaded_entry_weight(r, p) ==
    entry_weight(dself[r], dprofiles[r][p], successful_referrals_count(p))

WinnerRowOfEntries(r, p, pos, n, ch) ==
    [profile |-> p, position |-> pos, draw |-> r,
     entry_weight |-> two_decimal_places(loaded_entry_weight(r, p)),
     total_entries |-> Cardinality(entries)]
WinnerRow(r, p, pos, n, ch) ==
    [profile |-> p, position |-> pos, draw |-> r,
     entry_weight |-> two_decimal_places(loaded_entry_weight(r, p)),
     total_entries |-> n]

NoResponse == [to |-> "none", outcome |-> "none", winners |-> {}]
Response(r, what, rows) == [to |-> r, outcome |-> what, winners |-> rows]
Shown(rows) == {[profile |-> w.profile, position |-> w.position] : w \in rows}

\* Challenge field defaults (models.py Challenge); None is written -1
NoTime == -1
NewChallenge ==
    [status |-> "upcoming", number_of_winners |-> 1,
     points_weight |-> 100, referrals_weight |-> 100,
     min_points_required |-> 0, min_scans_required |-> 0,
     counties_eligible |-> {}, total_entries |-> 0,
     draw_in_progress |-> FALSE, winners_selected_at |-> NoTime,
     draw_completed_at |-> NoTime, end_date |-> 1]

InvokedOnDrawn(r) == winners # {} /\ \A q \in Reqs \ {r} : dpc[q] = "idle"

\* the request has returned: its locals are dead
DrawReturn(r, res) ==
    /\ dpc' = [dpc EXCEPT ![r] = "idle"]
    /\ dself' = [dself EXCEPT ![r] = NewChallenge]
    /\ drecs' = [drecs EXCEPT ![r] = {}]
    /\ dhad' = [dhad EXCEPT ![r] = FALSE]
    /\ dprofiles' = [dprofiles EXCEPT ![r] = NoSnapshot]
    /\ response' = res

(***************************************************************************)
(* select_challenge_winners_view (views.py): authorisation, load, the two  *)
(* status checks.  No statement touches the database between the load and  *)
(* the checks, so they are one step.                                       *)
(***************************************************************************)
select_challenge_winners_view(r) ==
    /\ TakesRequest(dpc, r)
    /\ nreq < MaxRequests
    /\ nreq' = nreq + 1
    /\ dkind' = [dkind EXCEPT ![r] = "view"]
    /\ \E is_staff \in BOOLEAN :
        IF ~is_staff
        THEN DrawReturn(r, Response(r, "unauthorized", {}))
        ELSE IF challenge.status = "winners_selected"
        THEN DrawReturn(r, Response(r, "already_selected", Shown(winners)))
        ELSE IF challenge.status # "ended" /\ challenge.end_date > now
        THEN DrawReturn(r, Response(r, "not_ended", {}))
        ELSE /\ dpc' = [dpc EXCEPT ![r] = "select"]
             /\ dself' = [dself EXCEPT ![r] = challenge]
             /\ dhad' = [dhad EXCEPT ![r] = InvokedOnDrawn(r)]
             /\ UNCHANGED <<drecs, response, dprofiles>>
    /\ UNCHANGED <<now, profVars, cardVars, scanVars, saveVars, calcVars, entryVars, pointVars, giftVars, challenge, winners>>

(***************************************************************************)
(* challenge_select_winners_ajax (views.py)                                *)
(***************************************************************************)
\* authorisation and get_object_or_404
challenge_select_winners_ajax(r) ==
    /\ TakesRequest(dpc, r)
    /\ nreq < MaxRequests
    /\ nreq' = nreq + 1
    /\ dkind' = [dkind EXCEPT ![r] = "ajax"]
    /\ \E is_staff \in BOOLEAN :
        IF ~is_staff
        THEN DrawReturn(r, Response(r, "unauthorized", {}))
        ELSE /\ dpc' = [dpc EXCEPT ![r] = "existing"]
             /\ dself' = [dself EXCEPT ![r] = challenge]
             /\ dhad' = [dhad EXCEPT ![r] = InvokedOnDrawn(r)]
             /\ UNCHANGED <<drecs, response, dprofiles>>
    /\ UNCHANGED <<now, profVars, cardVars, scanVars, saveVars, calcVars, entryVars, pointVars, giftVars, challenge, winners>>

\* "Check if winners already exist" and the branch that returns them
ajax_existing_winners(r) ==
    /\ dpc[r] = "existing"
    /\ IF winners # {}
       THEN /\ challenge' =
                 [challenge EXCEPT
                    !.status =
                        IF dself[r].status # "winners_selected"
                        THEN "winners_selected" ELSE @,
                    !.winners_selected_at =
                        IF dself[r].status # "winners_selected" THEN now ELSE @,
                    !.draw_in_progress = FALSE,
                    !.draw_completed_at = now]
            /\ DrawReturn(r, Response(r, "already_selected", Shown(winners)))
       ELSE IF dself[r].status = "winners_selected"
       THEN /\ DrawReturn(r, Response(r, "not_found", {}))
            /\ UNCHANGED challenge
       ELSE /\ dpc' = [dpc EXCEPT ![r] = "select"]
            /\ UNCHANGED <<challenge, dself, drecs, dhad, response, dprofiles>>
    /\ UNCHANGED <<now, profVars, cardVars, scanVars, saveVars, calcVars, entryVars, pointVars, giftVars, winners, nreq, dkind>>

(***************************************************************************)
(* Challenge.select_winners (models.py), called by both handlers outside   *)
(* any transaction: every statement is committed on its own.               *)
(***************************************************************************)
\* except ValueError / except Exception of the calling handler; the ajax
\* handler also writes draw_in_progress = False (update_fields)
select_failed(r, what) ==
    /\ challenge' = IF dkind[r] = "ajax"
                    THEN [challenge EXCEPT !.draw_in_progress = FALSE]
                    ELSE challenge
    /\ DrawReturn(r, Response(r, what, {}))

\* "if eligible_profiles.count() < self.number_of_winners: raise ValueError"
NotEnoughIgnoringOne(self, count) == count < self.number_of_winners - 1
NotEnoughEligible(self, count) == count < self.number_of_winners

\* the count check, the weights and the call of random.choices
select_winners(r) ==
    /\ dpc[r] = "select"
    /\ LET self == dself[r]
           eligible_profiles == get_eligible_profiles(self)
       IN IF NotEnoughEligible(self, Cardinality(eligible_profiles))
          THEN /\ select_failed(r, "insufficient")
          ELSE /\ random_choices(self, eligible_profiles, self.number_of_winners) # {}
               /\ dprofiles' = [dprofiles EXCEPT ![r] = Snapshot(eligible_profiles)]
               /\ dpc' = [dpc EXCEPT ![r] = "create"]
               /\ UNCHANGED <<challenge, dself, drecs, dhad, response>>
    /\ UNCHANGED <<now, profVars, cardVars, scanVars, saveVars, calcVars, entryVars, pointVars, giftVars, winners, nreq, dkind>>

\* one pass of "for position, winner_profile in enumerate(winners, 1)":
\* ChallengeWinner.objects.create, which raises IntegrityError when the
\* challenge already has a row for that profile
create_winner(r) ==
    /\ dpc[r] = "create"
    /\ \E winners_picked \in random_choices(dself[r], DOMAIN dprofiles[r], 1) :
       LET self == dself[r]
           position == Cardinality(drecs[r]) + 1
           winner_profile == winners_picked[1]
           row == WinnerRow(r, winner_profile, position,
                            Cardinality(DOMAIN dprofiles[r]), self)
       IN IF ~WinnerInsertAllowed(winner_profile)
          THEN /\ select_failed(r, "error")
               /\ UNCHANGED winners
          ELSE /\ winners' = winners \cup {row}
               /\ drecs' = [drecs EXCEPT ![r] = @ \cup {row}]
               /\ dpc' = [dpc EXCEPT ![r] =
                            IF position = self.number_of_winners THEN "save" ELSE "create"]
               /\ UNCHANGED <<challenge, dself, dhad, response, dprofiles>>
    /\ UNCHANGED <<now, profVars, cardVars, scanVars, saveVars, calcVars, entryVars, pointVars, giftVars, nreq, dkind>>

\* self.status = 'winners_selected' ... self.save() writes every field of
\* the object the request loaded; the ajax handler then saves
\* draw_in_progress and draw_completed_at
save_winners_selected(r) ==
    /\ dpc[r] = "save"
    /\ LET self == [dself[r] EXCEPT
                        !.status = "winners_selected",
                        !.winners_selected_at = now,
                        !.total_entries = Cardinality(DOMAIN dprofiles[r])]
       IN challenge' = IF dkind[r] = "ajax"
                       THEN [self EXCEPT !.draw_in_progress = FALSE,
                                         !.draw_completed_at = now]
                       ELSE self
    /\ DrawReturn(r, Response(r, "selected", Shown(drecs[r])))
    /\ UNCHANGED <<now, profVars, cardVars, scanVars, saveVars, calcVars, entryVars, pointVars, giftVars, winners, nreq, dkind>>

(***************************************************************************)
(* Administration                                                          *)
(***************************************************************************)
\* ChallengeAdmin.activate_challenges: queryset.update(status='active')
activate_challenges ==
    /\ challenge.status # "active"
    /\ challenge' = [challenge EXCEPT !.status = "active"]
    /\ UNCHANGED <<now, profVars, cardVars, scanVars, saveVars, calcVars, entryVars, pointVars, giftVars, winners, nreq, dpc, dkind, dself, drecs, dhad, response, dprofiles>>

\* ChallengeAdmin.end_challenges: queryset.update(status='ended')
end_challenges ==
    /\ challenge.status # "ended"
    /\ challenge' = [challenge EXCEPT !.status = "ended"]
    /\ UNCHANGED <<now, profVars, cardVars, scanVars, saveVars, calcVars, entryVars, pointVars, giftVars, winners, nreq, dpc, dkind, dself, drecs, dhad, response, dprofiles>>

\* time passes
Tick ==
    /\ now < MaxTime
    /\ now' = now + 1
    /\ UNCHANGED <<profVars, chVars, cardVars, scanVars, saveVars, calcVars, entryVars, pointVars, giftVars>>

(***************************************************************************)
(* Estate cards (models.py): configuration rows that no modelled operation *)
(* writes.                                                                 *)
(***************************************************************************)
Collections == {"c1", "c2"}
Cards == 1..6
Codes == {"A", "B"}
ScanProfiles == {"p1", "p2"}
NoCollection == "none"
NoCode == "none"
NoCard == 0

\* EstateCard.RARITY_WEIGHTS and the fallback of RARITY_WEIGHTS.get
common_weight == 60
uncommon_weight == 30
rare_weight == 10
unknown_rarity_weight == 50
flat_rarity_weight(rarity) == unknown_rarity_weight
RARITY_WEIGHTS(rarity) ==
    CASE rarity = "common" -> common_weight
      [] rarity = "uncommon" -> uncommon_weight
      [] rarity = "rare" -> rare_weight
      [] OTHER -> unknown_rarity_weight

\* the EstateCard rows; drop_weight is held in tenths, reward_points
\* defaults to 10.  Card 5 of c1 and the only card of c2 are not active.
EstateCard ==
    [k \in Cards |->
        CASE k = 1 -> [collection |-> "c1", card_number |-> 1, rarity |-> "common",
                       drop_weight |-> 10, reward_points |-> 10, active |-> TRUE]
          [] k = 2 -> [collection |-> "c1", card_number |-> 2, rarity |-> "uncommon",
                       drop_weight |-> 5, reward_points |-> 10, active |-> TRUE]
          [] k = 3 -> [collection |-> "c1", card_number |-> 3, rarity |-> "rare",
                       drop_weight |-> 10, reward_points |-> 25, active |-> TRUE]
          [] k = 4 -> [collection |-> "c1", card_number |-> 4, rarity |-> "common",
                       drop_weight |-> 10, reward_points |-> 10, active |-> TRUE]
          [] k = 5 -> [collection |-> "c1", card_number |-> 5, rarity |-> "rare",
                       drop_weight |-> 10, reward_points |-> 10, active |-> FALSE]
          [] OTHER -> [collection |-> "c2", card_number |-> 1, rarity |-> "common",
                       drop_weight |-> 10, reward_points |-> 10, active |-> FALSE]]

\* EstateCard.get_effective_weight of the card object self, in tenths of the
\* code's value
get_effective_weight(self) ==
    RARITY_WEIGHTS(self.rarity) * self.drop_weight

\* PackCode.points of the pack codes
PackPoints == [c \in Codes |-> IF c = "B" THEN 20 ELSE 10]

\* Partnership of a profile (Profile.partnership) and Partnership.points_per_scan
HasActivePartnership(p) == p = "p2"
points_per_scan == 5

(***************************************************************************)
(* Transactions of scan_pack                                               *)
(***************************************************************************)
NoWrite == -1
NoTx == [pack |-> NoCode, points |-> NoWrite, partner |-> NoWrite,
         scans |-> {}, cards |-> {}, comps |-> {}, credits |-> {}]

\* select_for_update on a PackCode row waits while another transaction
\* holds the row
PackRowUnlocked(r, code) == TRUE
PackRowFree(r, code) == \A q \in Reqs \ {r} : tx[q].pack # code

\* an UPDATE of a Profile row waits while another transaction has an
\* uncommitted write to the row
ProfileRowUnguarded(r, p) == TRUE
ProfileRowFree(r, p) ==
    \A q \in Reqs \ {r} : ~(tx[q].points # NoWrite /\ sprofile[q] = p)

\* rows a statement of request r sees: committed ones and its own
VisibleCards(r) == ucc \cup tx[r].cards
VisibleCompletions(r) == completions \cup tx[r].comps

NoScanResponse == "none"

NoReveal == [card |-> NoCard, is_duplicate |-> FALSE, failed |-> FALSE]
\* "except Exception as e" around the call: revealed_card stays None
RevealFailed == [card |-> NoCard, is_duplicate |-> FALSE, failed |-> TRUE]

\* the request has returned and its transaction has ended
ScanReturn(r, res) ==
    /\ spc' = [spc EXCEPT ![r] = "idle"]
    /\ sprofile' = [sprofile EXCEPT ![r] = NoProfile]
    /\ scode' = [scode EXCEPT ![r] = NoCode]
    /\ sloaded' = [sloaded EXCEPT ![r] = 0]
    /\ srevealed' = [srevealed EXCEPT ![r] = NoReveal]
    /\ tx' = [tx EXCEPT ![r] = NoTx]
    /\ sresponse' = res

(***************************************************************************)
(* scan_pack (views.py), POST                                              *)
(***************************************************************************)
\* request.user.profile is loaded, the code is read from the form
scan_pack(r) ==
    /\ TakesRequest(spc, r)
    /\ nscan < MaxScans
    /\ nscan' = nscan + 1
    /\ \E p \in ScanProfiles, code \in Codes \cup {"", "ZZ"} :
        IF code = ""
        THEN /\ ScanReturn(r, "no_code")
        ELSE /\ spc' = [spc EXCEPT ![r] = "lock"]
             /\ sprofile' = [sprofile EXCEPT ![r] = p]
             /\ scode' = [scode EXCEPT ![r] = code]
             /\ sloaded' = [sloaded EXCEPT ![r] = points[p]]
             /\ UNCHANGED <<srevealed, tx, sresponse>>
    /\ UNCHANGED <<now, profVars, chVars, cardVars, saveVars, calcVars, entryVars, pointVars, giftVars>>

\* PackCode.objects.select_for_update().get(code=code) and "if pack.used"
lock_pack(r) ==
    /\ spc[r] = "lock"
    /\ IF scode[r] \notin Codes
       THEN ScanReturn(r, "invalid")
       ELSE /\ PackRowFree(r, scode[r])
            /\ IF packs[scode[r]].used
               THEN ScanReturn(r, "already_used")
               ELSE /\ tx' = [tx EXCEPT ![r].pack = scode[r]]
                    /\ spc' = [spc EXCEPT ![r] = "credit"]
                    /\ UNCHANGED <<sprofile, scode, sloaded, srevealed, sresponse>>
    /\ UNCHANGED <<now, profVars, chVars, cardVars, saveVars, calcVars, entryVars, pointVars, giftVars, nscan>>

\* Scan.award_partnership_points: one PartnershipEarning and the total of
\* the partnership, for a profile with an active partnership
award_partnership_points(r, p) ==
    IF HasActivePartnership(p) THEN partner_total + points_per_scan ELSE NoWrite

\* profile.points += points; profile.save; pack.mark_used(profile);
\* Scan.objects.create; scan.award_partnership_points()
credit_pack(r) ==
    /\ spc[r] = "credit"
    /\ LET p == sprofile[r]
           code == scode[r]
           pts == packs[code].points
       IN /\ ProfileRowFree(r, p)
          /\ sloaded' = [sloaded EXCEPT ![r] = @ + pts]
          /\ tx' = [tx EXCEPT
                      ![r].points = sloaded[r] + pts,
                      ![r].scans = {[profile |-> p, pack |-> code, points_awarded |-> pts]},
                      ![r].partner = award_partnership_points(r, p),
                      ![r].credits = {[profile |-> p, pack |-> code, kind |-> "pack",
                                       collection |-> NoCollection, amount |-> pts]}]
    /\ spc' = [spc EXCEPT ![r] = "reveal"]
    /\ UNCHANGED <<nscan, sprofile, scode, srevealed, sresponse>>
    /\ UNCHANGED <<now, profVars, chVars, cardVars, saveVars, calcVars, entryVars, pointVars, giftVars>>

(***************************************************************************)
(* reveal_card_for_scan (models.py), called inside the transaction of      *)
(* scan_pack                                                               *)
(***************************************************************************)
duplicate_bonus == 5
milestone_cards == 3
milestone_bonus == 100

\* EstateCollection.objects.filter(is_active=True, start_date__lte=now,
\* end_date__gte=now)
active_collections ==
    {c \in Collections : /\ collections[c].is_active
                         /\ collections[c].start_date <= now
                         /\ collections[c].end_date >= now}

\* .first() under Meta.ordering = ['-start_date']
first_collection(cs) ==
    {c \in cs : \A d \in cs : collections[d].start_date <= collections[c].start_date}

\* EstateCard.objects.filter(collection=collection, active=True)
collection_cards(c) == {k \in Cards : EstateCard[k].collection = c}
active_cards(c) == {k \in Cards : EstateCard[k].collection = c /\ EstateCard[k].active}

\* the queryset in Meta.ordering = ['collection', 'card_number']
RECURSIVE by_card_number(_)
by_card_number(ks) ==
    IF ks = {} THEN <<>>
    ELSE LET k == CHOOSE x \in ks :
                    \A y \in ks : EstateCard[x].card_number <= EstateCard[y].card_number
         IN <<k>> \o by_card_number(ks \ {k})

\* the card objects of a queryset given by its ids
card_objects(seq) == [i \in 1..Len(seq) |-> EstateCard[seq[i]]]

\* "cumulative += card.get_effective_weight()" after i cards of the list
RECURSIVE running_total(_, _)
running_total(cards, i) ==
    IF i = 0 THEN 0 ELSE running_total(cards, i - 1) + get_effective_weight(cards[i])

cumulative(seq, i) == running_total(card_objects(seq), i)

\* the values of random.uniform(0, total_weight) that the walk can tell
\* apart: the ends, every cumulative weight and the values next to it
uniform_points(cards) ==
    LET total_weight == running_total(cards, Len(cards))
        sums == {running_total(cards, i) : i \in 1..Len(cards)}
        lo == IF total_weight < 0 THEN total_weight ELSE 0
        hi == IF total_weight < 0 THEN 0 ELSE total_weight
    IN {x \in {0, total_weight} \cup sums \cup {s + 1 : s \in sums} \cup {s - 1 : s \in sums} :
            lo <= x /\ x <= hi}

random_points(seq) == uniform_points(card_objects(seq))

\* the cumulative-weight walk: the position of the first card whose
\* cumulative weight reaches random_point, 0 when the loop ends without one
first_hit(cards, random_point) ==
    LET hits == {i \in 1..Len(cards) : random_point <= running_total(cards, i)}
    IN IF hits = {} THEN 0 ELSE CHOOSE i \in hits : \A j \in hits : i <= j

\* the walk, then "if not selected_card: random.choice(list(cards))": the
\* positions that can be selected
walk_only(cards, random_point) == {first_hit(cards, random_point)}
weighted_draw(cards, random_point) ==
    IF first_hit(cards, random_point) = 0
    THEN 1..Len(cards)
    ELSE {first_hit(cards, random_point)}

\* the cumulative-weight walk over the cards of a queryset; NoCard when no
\* card was selected
walk(seq, random_point) ==
    IF first_hit(card_objects(seq), random_point) = 0 THEN NoCard
    ELSE seq[first_hit(card_objects(seq), random_point)]

selected_cards(seq, random_point) ==
    {seq[i] : i \in weighted_draw(card_objects(seq), random_point)}

\* UserCardCollection.objects.filter(profile, card, is_duplicate=False).exists()
never_owned(rows, p, k) == FALSE
owns_card(rows, p, k) ==
    \E u \in rows : u.profile = p /\ u.card = k /\ ~u.is_duplicate

\* ...filter(profile, card__collection, is_duplicate=False)
\*    .values('card_id').distinct().count()
total_rows(rows, p, c) ==
    Cardinality({v \in rows : v.profile = p /\ EstateCard[v.card].collection = c})
total_unique(rows, p, c) ==
    Cardinality({u.card : u \in {v \in rows : /\ v.profile = p
                                               /\ EstateCard[v.card].collection = c
                                               /\ ~v.is_duplicate}})

\* the lookup of CollectionCompletion.objects.get_or_create(profile, collection)
completion_never_found(rows, p, c) == FALSE
completion_exists(rows, p, c) ==
    \E m \in rows : m.profile = p /\ m.collection = c

\* the insert of get_or_create waits for a transaction that has inserted
\* the same (profile, collection) and not ended yet
CompletionKeyFree(r, p, c) ==
    \A q \in Reqs \ {r} : ~completion_exists(tx[q].comps, p, c)

Credit(p, code, kind, c, amount) ==
    [profile |-> p, pack |-> code, kind |-> kind, collection |-> c, amount |-> amount]

\* "if not is_duplicate: points_to_add += selected_card.reward_points" and
\* "if is_duplicate: points_to_add += 5"
card_points_always(selected_card, is_duplicate) == EstateCard[selected_card].reward_points
base_reward(selected_card, is_duplicate) ==
    IF ~is_duplicate THEN EstateCard[selected_card].reward_points ELSE duplicate_bonus

\* the part of reveal_card_for_scan after the card is selected
reveal_selected(r, p, collection, selected_card) ==
    LET code == scode[r]
        is_duplicate == owns_card(VisibleCards(r), p, selected_card)
        user_card == [profile |-> p, card |-> selected_card, from_pack |-> code,
                      is_duplicate |-> is_duplicate]
        rows == VisibleCards(r) \cup {user_card}
        base == base_reward(selected_card, is_duplicate)
        unique == total_unique(rows, p, collection)
        milestone == unique = milestone_cards /\ ~is_duplicate
        completed == unique >= collections[collection].total_cards /\ ~is_duplicate
        created == completed /\ ~completion_exists(VisibleCompletions(r), p, collection)
        reward == collections[collection].completion_reward_points
        points_to_add == base + (IF milestone THEN milestone_bonus ELSE 0)
                              + (IF created THEN reward ELSE 0)
    IN /\ completed => CompletionKeyFree(r, p, collection)
       /\ sloaded' = [sloaded EXCEPT ![r] = @ + points_to_add]
       /\ tx' = [tx EXCEPT
                   ![r].cards = @ \cup {user_card},
                   ![r].comps = IF created
                                THEN @ \cup {[profile |-> p, collection |-> collection,
                                              reward_claimed |-> TRUE,
                                              points_awarded |-> reward,
                                              from_pack |-> code]}
                                ELSE @,
                   ![r].points = IF points_to_add > 0 THEN sloaded[r] + points_to_add ELSE @,
                   ![r].credits = @ \cup
                        {Credit(p, code, IF is_duplicate THEN "duplicate" ELSE "card",
                                collection, base)}
                        \cup (IF milestone
                              THEN {Credit(p, code, "milestone", collection, milestone_bonus)}
                              ELSE {})
                        \cup (IF created
                              THEN {Credit(p, code, "completion", collection, reward)}
                              ELSE {})]
       /\ srevealed' = [srevealed EXCEPT ![r] =
                            [card |-> selected_card, is_duplicate |-> is_duplicate,
                             failed |-> FALSE]]

\* "return None": nothing is written
reveal_nothing_but_bonus(r) ==
    /\ sloaded' = [sloaded EXCEPT ![r] = @ + duplicate_bonus]
    /\ tx' = [tx EXCEPT ![r].points = sloaded[r] + duplicate_bonus]
    /\ UNCHANGED srevealed
reveal_nothing(r) == UNCHANGED <<sloaded, tx, srevealed>>

\* a statement after UserCardCollection.objects.create raises (the count
\* query, the lookup of get_or_create): the row is written, nothing is
\* credited, and the exception leaves reveal_card_for_scan
reveal_interrupted(r, p, selected_card) ==
    LET is_duplicate == owns_card(VisibleCards(r), p, selected_card)
        user_card == [profile |-> p, card |-> selected_card, from_pack |-> scode[r],
                      is_duplicate |-> is_duplicate]
    IN /\ tx' = [tx EXCEPT ![r].cards = @ \cup {user_card}]
       /\ srevealed' = [srevealed EXCEPT ![r] = RevealFailed]
       /\ UNCHANGED sloaded

reveal_card_for_scan(r) ==
    /\ spc[r] = "reveal"
    /\ IF active_collections = {}
       THEN reveal_nothing(r)
       ELSE \E collection \in first_collection(active_collections) :
              LET cards == by_card_number(active_cards(collection))
              IN IF cards = <<>>
                 THEN reveal_nothing(r)
                 ELSE \E random_point \in random_points(cards) :
                        \E selected_card \in selected_cards(cards, random_point) :
                           reveal_selected(r, sprofile[r], collection, selected_card)
    /\ spc' = [spc EXCEPT ![r] = "commit"]
    /\ UNCHANGED <<nscan, sprofile, scode, sresponse>>
    /\ UNCHANGED <<now, profVars, chVars, cardVars, saveVars, calcVars, entryVars, pointVars, giftVars>>

\* reveal_card_for_scan raises after its first write and scan_pack catches
\* the exception inside the "with transaction.atomic()" block, with no
\* savepoint around the call: the block goes on to its normal exit
reveal_card_raises(r) ==
    /\ spc[r] = "reveal"
    /\ active_collections # {}
    /\ \E collection \in first_collection(active_collections) :
          LET cards == by_card_number(active_cards(collection))
          IN /\ cards # <<>>
             /\ \E random_point \in random_points(cards) :
                  \E selected_card \in selected_cards(cards, random_point) :
                     reveal_interrupted(r, sprofile[r], selected_card)
    /\ spc' = [spc EXCEPT ![r] = "commit"]
    /\ UNCHANGED <<nscan, sprofile, scode, sresponse>>
    /\ UNCHANGED <<now, profVars, chVars, cardVars, saveVars, calcVars, entryVars, pointVars, giftVars>>

\* the failed statement has aborted the database transaction (PostgreSQL),
\* or a failed save has marked it for rollback: leaving the block rolls
\* everything back, the pack credit included
scan_rolled_back(r) ==
    /\ spc[r] = "reveal"
    /\ ScanReturn(r, "error")
    /\ UNCHANGED <<now, profVars, chVars, cardVars, saveVars, calcVars, entryVars, pointVars, giftVars, nscan>>

\* the response is built and the "with transaction.atomic()" block is left:
\* the writes of the request are committed and its locks released
commit_scan(r) ==
    /\ spc[r] = "commit"
    /\ LET p == sprofile[r]
           code == scode[r]
       IN /\ points' = [points EXCEPT ![p] = tx[r].points]
          /\ packs' = [packs EXCEPT ![code].used = TRUE, ![code].used_by = p]
          /\ scans' = scans \cup tx[r].scans
          /\ ucc' = ucc \cup tx[r].cards
          /\ completions' = completions \cup tx[r].comps
          /\ partner_total' = IF tx[r].partner # NoWrite THEN tx[r].partner ELSE partner_total
          /\ ledger' = ledger \cup tx[r].credits
          /\ ScanReturn(r, IF srevealed[r].failed THEN "reveal_failed" ELSE "accepted")
    /\ UNCHANGED <<now, profile_completed, collections, chVars, saveVars, calcVars, entryVars, pointVars, giftVars, nscan>>

(***************************************************************************)
(* claim_collection_reward (views.py) and CollectionCompletion.claim_reward *)
(***************************************************************************)
claim_collection_reward(p, c) ==
    /\ LET mine == {m \in completions : m.profile = p /\ m.collection = c}
           reward == collections[c].completion_reward_points
       IN IF mine = {}
          THEN /\ sresponse' = "not_completed"
               /\ UNCHANGED <<points, completions, ledger>>
          ELSE \E completion \in mine :
                IF completion.reward_claimed
                THEN /\ sresponse' = "already_claimed"
                     /\ UNCHANGED <<points, completions, ledger>>
                ELSE /\ points' = [points EXCEPT ![p] = @ + reward]
                     /\ completions' = (completions \ {completion}) \cup
                            {[completion EXCEPT !.reward_claimed = TRUE,
                                                !.points_awarded = reward]}
                     /\ ledger' = ledger \cup {Credit(p, NoCode, "completion", c, reward)}
                     /\ sresponse' = "claimed"
    /\ UNCHANGED <<now, profile_completed, scans, chVars, saveVars, calcVars, entryVars, pointVars, giftVars, packs, collections, ucc,
                   partner_total, nscan, spc, sprofile, scode, sloaded, srevealed, tx>>

(***************************************************************************)
(* Scanning: initial states and specification                              *)
(***************************************************************************)
PointsAtScan == [p \in Profiles |-> IF p = "p1" THEN 50 ELSE 0]

NewPacks == [c \in Codes |-> [points |-> PackPoints[c], used |-> FALSE, used_by |-> NoProfile]]

\* EstateCollection rows: c1 is open at time 1 only, c2 always; a is the
\* one with is_active set, n the total_cards of both
NewCollections(a, n) ==
    [c \in Collections |->
        [is_active |-> (c = a),
         start_date |-> IF c = "c1" THEN 1 ELSE 0,
         end_date |-> IF c = "c1" THEN 1 ELSE MaxTime,
         total_cards |-> n,
         completion_reward_points |-> 500]]

\* cards received as gifts (CardGift.claim): no pack, not duplicates
GiftedCards(p, ks) ==
    {[profile |-> p, card |-> k, from_pack |-> NoCode, is_duplicate |-> FALSE] : k \in ks}

\* an EstateCollection object nobody holds
NoObject == [pk |-> NoCollection, is_active |-> FALSE]

\* no method call recorded
NoCalc == [fn |-> "none"]

\* no ChallengeEntry row
NoEntries == entries = {}

\* PointTransferSettings defaults; no transfer, invite or redemption yet
NoPointRequest == [kind |-> "none"]
PointsIdle ==
    /\ registered = Profiles
    /\ fee = 0
    /\ transfers = {}
    /\ invites = {}
    /\ redemptions = {}
    /\ nops = 0
    /\ tpc = [r \in Reqs |-> "idle"]
    /\ tself = [r \in Reqs |-> NoPointRequest]
    /\ referred_by = [p \in Profiles |-> NoProfile]
    /\ stock = 0
    /\ held = {}
    /\ released = {}

\* no CardGift row
NoGiftClaim == [token |-> "none"]
GiftsIdle ==
    /\ gifts = {}
    /\ gpc = [r \in Reqs |-> "idle"]
    /\ gself = [r \in Reqs |-> NoGiftClaim]

SavesIdle ==
    /\ cpc = [r \in Reqs |-> "idle"]
    /\ cself = [r \in Reqs |-> NoObject]

ScansIdle ==
    /\ nscan = 0
    /\ spc = [r \in Reqs |-> "idle"]
    /\ sprofile = [r \in Reqs |-> NoProfile]
    /\ scode = [r \in Reqs |-> NoCode]
    /\ sloaded = [r \in Reqs |-> 0]
    /\ srevealed = [r \in Reqs |-> NoReveal]
    /\ tx = [r \in Reqs |-> NoTx]
    /\ sresponse = NoScanResponse

DrawsIdle ==
    /\ winners = {}
    /\ nreq = 0
    /\ dpc = [r \in Reqs |-> "idle"]
    /\ dkind = [r \in Reqs |-> "view"]
    /\ dself = [r \in Reqs |-> NewChallenge]
    /\ drecs = [r \in Reqs |-> {}]
    /\ dhad = [r \in Reqs |-> FALSE]
    /\ dprofiles = [r \in Reqs |-> NoSnapshot]
    /\ response = NoResponse

\* the collection flagged active, the total_cards of the collections and
\* the cards p1 holds as gifts when the scans start
ScanSetups ==
    {[active |-> "c1", total_cards |-> 2, gifted |-> {1, 2}],
     [active |-> "c1", total_cards |-> 4, gifted |-> {1, 2}],
     [active |-> "c2", total_cards |-> 2, gifted |-> {}]}

InitScan ==
    /\ now = 0
    /\ points = PointsAtScan
    /\ profile_completed = [p \in Profiles |-> TRUE]
    /\ scans = {}
    /\ challenge = NewChallenge
    /\ DrawsIdle
    /\ packs = NewPacks
    /\ \E setup \in ScanSetups :
         /\ collections = NewCollections(setup.active, setup.total_cards)
         /\ ucc = GiftedCards("p1", setup.gifted)
    /\ completions = {}
    /\ partner_total = 0
    /\ ledger = {}
    /\ ScansIdle
    /\ SavesIdle
    /\ NoEntries
    /\ PointsIdle
    /\ GiftsIdle
    /\ calc = NoCalc

NextScan ==
    \/ \E r \in Reqs : scan_pack(r)
    \/ \E r \in Reqs : lock_pack(r)
    \/ \E r \in Reqs : credit_pack(r)
    \/ \E r \in Reqs : reveal_card_for_scan(r)
    \/ \E r \in Reqs : reveal_card_raises(r)
    \/ \E r \in Reqs : scan_rolled_back(r)
    \/ \E r \in Reqs : commit_scan(r)
    \/ \E p \in ScanProfiles, c \in Collections : claim_collection_reward(p, c)
    \/ Tick

SpecScan == InitScan /\ [][NextScan]_vars

(***************************************************************************)
(* Winner selection: initial states and specification                      *)
(***************************************************************************)
PointsAtDraw == [p \in Profiles |-> IF p = "p2" THEN 2000 ELSE 0]

InitDraw ==
    /\ now = 0
    /\ points = PointsAtDraw
    /\ \E q \in {"p3", NoProfile} :
         profile_completed = [p \in Profiles |-> p # q]
    /\ scans = {}
    /\ \E n \in 1..MaxWinners, mp \in {0, 1000} :
         challenge = [NewChallenge EXCEPT !.status = "active",
                                          !.number_of_winners = n,
                                          !.min_points_required = mp]
    /\ DrawsIdle
    /\ packs = NewPacks
    /\ collections = NewCollections(NoCollection, 3)
    /\ ucc = {}
    /\ completions = {}
    /\ partner_total = 0
    /\ ledger = {}
    /\ ScansIdle
    /\ SavesIdle
    /\ NoEntries
    /\ PointsIdle
    /\ GiftsIdle
    /\ calc = NoCalc

NextDraw ==
    \/ \E r \in Reqs : select_challenge_winners_view(r)
    \/ \E r \in Reqs : challenge_select_winners_ajax(r)
    \/ \E r \in Reqs : ajax_existing_winners(r)
    \/ \E r \in Reqs : select_winners(r)
    \/ \E r \in Reqs : create_winner(r)
    \/ \E r \in Reqs : save_winners_selected(r)
    \/ activate_challenges
    \/ end_challenges
    \/ Tick

SpecDraw == InitDraw /\ [][NextDraw]_vars

(***************************************************************************)
(* Properties of winner selection                                          *)
(***************************************************************************)
\* rows are n rows for n different profiles, at the positions 1..n, one each
ExactlyNWinners(rows, n) ==
    /\ Cardinality(rows) = n
    /\ \A w1, w2 \in rows : w1.profile = w2.profile => w1 = w2
    /\ \A w1, w2 \in rows : w1.position = w2.position => w1 = w2
    /\ {w.position : w \in rows} = 1..n

\* C1: a select_winners call that succeeds has recorded exactly
\* number_of_winners rows, for pairwise distinct profiles, at the positions
\* 1..number_of_winners, each used once (and it returns those rows).
C1_SuccessfulDrawRecordsNDistinct ==
    /\ \A r \in Reqs : dpc[r] = "save" =>
          /\ ExactlyNWinners(drecs[r], dself[r].number_of_winners)
          /\ Cardinality(get_eligible_profiles(dself[r])) >= dself[r].number_of_winners
    /\ response.outcome = "selected" =>
          /\ ExactlyNWinners(response.winners, challenge.number_of_winners)
          /\ Cardinality(get_eligible_profiles(challenge)) >= challenge.number_of_winners

\* a draw of two winners has succeeded
C1_Witness ==
    /\ response.outcome = "selected"
    /\ challenge.number_of_winners = 2
    /\ Cardinality(response.winners) = 2

\* C2: a handler invoked on a challenge that already has recorded winners
\* (and on which no other draw is running) never adds a winner row.
C2_NoNewDrawWhenWinnersExist ==
    [][\A r \in Reqs : (dhad[r] /\ create_winner(r)) => winners' = winners]_vars

\* C3: when fewer profiles are eligible than number_of_winners, the call
\* fails with the insufficient-candidates error, creates no winner row and
\* leaves the challenge status as it was.
C3_InsufficientLeavesDrawReady ==
    [][\A r \in Reqs :
         ( /\ dpc[r] = "select"
           /\ Cardinality(get_eligible_profiles(dself[r])) < dself[r].number_of_winners
           /\ select_winners(r) )
         => /\ response' = Response(r, "insufficient", {})
            /\ winners' = winners
            /\ challenge'.status = challenge.status
            /\ dpc'[r] = "idle"]_vars

\* a draw was refused for lack of candidates and the challenge is not drawn
C3_Witness ==
    /\ response.outcome = "insufficient"
    /\ winners = {}
    /\ challenge.status # "winners_selected"
    /\ Cardinality(get_eligible_profiles(challenge)) < challenge.number_of_winners

\* C10: of draw requests that run concurrently only one records winners: a
\* request that was not invoked on an already drawn, quiescent challenge
\* adds a row only when the challenge holds no rows of another draw.
C10_ConcurrentDrawsRecordOneDraw ==
    [][\A r \in Reqs :
         (~dhad[r] /\ create_winner(r) /\ winners' # winners)
         => \A w \in winners : w.draw = r]_vars

(***************************************************************************)
(* EstateCollection.save (models.py), reached from the admin change form   *)
(* and from the seeding commands: an object is loaded, is_active is set,   *)
(* and save() runs its two statements.                                     *)
(***************************************************************************)
\* the object is loaded and edited
edit_collection(r) ==
    /\ TakesRequest(cpc, r)
    /\ \E c \in Collections, is_active \in BOOLEAN :
         cself' = [cself EXCEPT ![r] = [pk |-> c, is_active |-> is_active]]
    /\ cpc' = [cpc EXCEPT ![r] = "deactivate"]
    /\ UNCHANGED <<now, profVars, chVars, cardVars, scanVars, calcVars, entryVars, pointVars, giftVars>>

\* "if self.is_active: EstateCollection.objects.filter(is_active=True)
\*      .exclude(pk=self.pk).update(is_active=False)"
deactivate_others(r) ==
    /\ cpc[r] = "deactivate"
    /\ collections' =
         IF cself[r].is_active
         THEN [c \in Collections |->
                 IF c # cself[r].pk /\ collections[c].is_active
                 THEN [collections[c] EXCEPT !.is_active = FALSE]
                 ELSE collections[c]]
         ELSE collections
    /\ cpc' = [cpc EXCEPT ![r] = "save"]
    /\ UNCHANGED <<now, profVars, chVars, scanVars, calcVars, entryVars, pointVars, giftVars, cself,
                   packs, ucc, completions, partner_total, ledger>>

\* "super().save(*args, **kwargs)"
save_collection(r) ==
    /\ cpc[r] = "save"
    /\ collections' = [collections EXCEPT ![cself[r].pk].is_active = cself[r].is_active]
    /\ cpc' = [cpc EXCEPT ![r] = "idle"]
    /\ cself' = [cself EXCEPT ![r] = NoObject]
    /\ UNCHANGED <<now, profVars, chVars, scanVars, calcVars, entryVars, pointVars, giftVars,
                   packs, ucc, completions, partner_total, ledger>>

InitSave ==
    /\ now = 0
    /\ points = PointsAtScan
    /\ profile_completed = [p \in Profiles |-> TRUE]
    /\ scans = {}
    /\ challenge = NewChallenge
    /\ DrawsIdle
    /\ packs = NewPacks
    /\ \E a \in Collections \cup {NoCollection} : collections = NewCollections(a, 3)
    /\ ucc = {}
    /\ completions = {}
    /\ partner_total = 0
    /\ ledger = {}
    /\ ScansIdle
    /\ SavesIdle
    /\ NoEntries
    /\ PointsIdle
    /\ GiftsIdle
    /\ calc = NoCalc

NextSave ==
    \/ \E r \in Reqs : edit_collection(r)
    \/ \E r \in Reqs : deactivate_others(r)
    \/ \E r \in Reqs : save_collection(r)

SpecSave == InitSave /\ [][NextSave]_vars

(***************************************************************************)
(* Properties of scanning and card reveal                                  *)
(***************************************************************************)
\* every write of the requests: committed or not
AllCompletions == completions \cup UNION {tx[r].comps : r \in Reqs}
AllCredits == ledger \cup UNION {tx[r].credits : r \in Reqs}
AllScans == scans \cup UNION {tx[r].scans : r \in Reqs}

RECURSIVE SumAmounts(_)
SumAmounts(es) ==
    IF es = {} THEN 0
    ELSE LET e == CHOOSE x \in es : TRUE IN e.amount + SumAmounts(es \ {e})

CreditsOf(es, p, kind, c) ==
    {e \in es : e.profile = p /\ e.kind = kind /\ e.collection = c}

\* C4: for every profile and collection there is at most one
\* CollectionCompletion row and the completion reward is credited at most
\* once, whatever the requests in flight have written.
C4_CompletionBonusAtMostOnce ==
    \A p \in Profiles, c \in Collections :
        /\ Cardinality({m \in AllCompletions : m.profile = p /\ m.collection = c}) <= 1
        /\ Cardinality(CreditsOf(AllCredits, p, "completion", c)) <= 1

\* the completion of c1 was credited to p1, and a later reveal took p1
\* past total_cards again
C4_Witness ==
    /\ CreditsOf(ledger, "p1", "completion", "c1") # {}
    /\ total_unique(ucc, "p1", "c1") > collections["c1"].total_cards
    /\ Cardinality({u.from_pack : u \in {v \in ucc : v.profile = "p1" /\ ~v.is_duplicate}}
                   \ {NoCode}) = 2

\* C5: the milestone bonus is credited at most once per profile and
\* collection, and only by a reveal of a card that is not a duplicate and
\* takes the count of distinct cards from 2 to 3.
C5_MilestoneOnlyOnThirdCard ==
    [][\A r \in Reqs :
         (spc[r] = "reveal" /\ spc'[r] = "commit") =>
           /\ \A e \in tx'[r].credits \ tx[r].credits :
                e.kind = "milestone" =>
                  /\ ~srevealed'[r].is_duplicate
                  /\ total_unique(VisibleCards(r), e.profile, e.collection) = 2
                  /\ total_unique(ucc \cup tx'[r].cards, e.profile, e.collection) = 3
           /\ \A p \in Profiles, c \in Collections :
                Cardinality(CreditsOf(ledger \cup UNION {tx'[q].credits : q \in Reqs},
                                      p, "milestone", c)) <= 1]_vars

\* p1 got the milestone bonus and then a fourth distinct card
C5_Witness ==
    /\ CreditsOf(ledger, "p1", "milestone", "c1") # {}
    /\ total_unique(ucc, "p1", "c1") = 4

\* no card can be revealed: no collection is valid now, or the one in use
\* has no active card
NothingToReveal ==
    \/ active_collections = {}
    \/ \A c \in first_collection(active_collections) : active_cards(c) = {}

\* C6: when no card can be revealed, reveal_card_for_scan returns no card
\* and writes nothing, and a scan whose reveal returned no card still
\* commits: the pack is used by the profile, its Scan row exists, and the
\* only credit is the points of the pack.
C6_ScanSucceedsWithoutReveal ==
    [][\A r \in Reqs :
         /\ (spc'[r] = "commit" /\ NothingToReveal /\ reveal_card_for_scan(r)) =>
               /\ UNCHANGED <<tx, sloaded, profVars, cardVars>>
               /\ srevealed'[r] = NoReveal
         /\ (spc'[r] = "idle" /\ srevealed[r] = NoReveal /\ commit_scan(r)) =>
               LET p == sprofile[r]
                   code == scode[r]
                   pts == packs[code].points
               IN /\ packs'[code].used /\ packs'[code].used_by = p
                  /\ [profile |-> p, pack |-> code, points_awarded |-> pts] \in scans'
                  /\ ledger' \ ledger = {Credit(p, code, "pack", NoCollection, pts)}
                  /\ points[p] + pts = sloaded[r] => points'[p] = points[p] + pts
                  /\ ucc' = ucc /\ completions' = completions
                  /\ sresponse' = "accepted"]_vars

\* a scan was accepted although no card was revealed for its pack
C6_Witness ==
    /\ sresponse = "accepted"
    /\ \E code \in Codes :
         /\ packs[code].used
         /\ \A u \in ucc : u.from_pack # code
         /\ \E s \in scans : s.pack = code /\ points[s.profile] = PointsAtScan[s.profile] + s.points_awarded

\* C8: a pack code is consumed at most once: it has at most one Scan row
\* and one credit, one request at a time holds it, and a request that finds
\* it used is rejected and writes nothing.
C8_PackConsumedAtMostOnce ==
    /\ \A code \in Codes :
         /\ Cardinality({s \in AllScans : s.pack = code}) <= 1
         /\ Cardinality({e \in AllCredits : e.pack = code /\ e.kind = "pack"}) <= 1
         /\ Cardinality({r \in Reqs : tx[r].pack = code}) <= 1
         /\ packs[code].used => \A r \in Reqs : tx[r].pack # code
    /\ \A r \in Reqs : spc[r] \in {"idle", "lock"} => tx[r] = NoTx

\* a request waits for a pack code that another request is about to commit
C8_Witness ==
    \E r, q \in Reqs :
        /\ r # q
        /\ spc[r] = "lock" /\ scode[r] \in Codes
        /\ spc[q] = "commit" /\ tx[q].pack = scode[r]
        /\ sprofile[r] # sprofile[q]

\* C9: once all scan requests have returned, every profile's balance is its
\* initial balance plus all the points credited to it.
C9_NoCreditLost ==
    (\A r \in Reqs : spc[r] = "idle") =>
        \A p \in Profiles :
            points[p] = PointsAtScan[p] + SumAmounts({e \in ledger : e.profile = p})

(***************************************************************************)
(* Property of collection activation                                       *)
(***************************************************************************)
\* C7: at most one EstateCollection has is_active = True.
C7_AtMostOneActiveCollection ==
    Cardinality({c \in Collections : collections[c].is_active}) <= 1

(***************************************************************************)
(* Further properties of card reveal                                       *)
(***************************************************************************)
\* C11: every committed UserCardCollection row that a pack revealed has its
\* card (or duplicate) points credited: the rows and the credit of a reveal
\* are committed together or not at all.
C11_RevealAllOrNothing ==
    \A u \in ucc :
        u.from_pack # NoCode =>
            \E e \in ledger : /\ e.pack = u.from_pack
                              /\ e.profile = u.profile
                              /\ e.kind \in {"card", "duplicate"}

(***************************************************************************)
(* Further properties of winner selection                                  *)
(***************************************************************************)
\* C12: a ChallengeWinner row exists only once the end_date of the
\* challenge has passed.
C12_NoWinnerBeforeEndDate ==
    winners # {} => challenge.end_date <= now

(***************************************************************************)
(* The side-effect free methods, called on their own: weights and          *)
(* eligibility over a range of profiles, cards and challenge settings.     *)
(***************************************************************************)
\* EstateCard.rarity: the three RARITY_CHOICES and a value outside them
Rarities == {"common", "uncommon", "rare", "legendary"}
\* EstateCard.drop_weight (FloatField, no validators), in tenths
DropWeights == {-10, 0, 1, 5, 8, 10}
\* Challenge.points_weight and referrals_weight (DecimalField, no
\* validators), in hundredths
PointsWeights == {-100, 100, 150}
ReferralsWeights == {-100, 100}

\* an active card of a reveal pool
PoolCard(rarity, drop_weight) ==
    [collection |-> "c1", card_number |-> 1, rarity |-> rarity,
     drop_weight |-> drop_weight, reward_points |-> 10, active |-> TRUE]

\* profile.calculate_entry_weight is called for a profile
call_calculate_entry_weight ==
    /\ \E p \in Profiles :
         calc' = [fn |-> "calculate_entry_weight", profile |-> p,
                  result |-> calculate_entry_weight(challenge, p)]
    /\ UNCHANGED <<now, profVars, chVars, cardVars, scanVars, saveVars, entryVars, pointVars, giftVars>>

\* card.get_effective_weight is called for a card
call_get_effective_weight ==
    /\ \E rarity \in Rarities, drop_weight \in DropWeights :
         LET self == PoolCard(rarity, drop_weight)
         IN calc' = [fn |-> "get_effective_weight", self |-> self,
                     result |-> get_effective_weight(self)]
    /\ UNCHANGED <<now, profVars, chVars, cardVars, scanVars, saveVars, entryVars, pointVars, giftVars>>

\* challenge.get_eligible_profiles is called
call_get_eligible_profiles ==
    /\ calc' = [fn |-> "get_eligible_profiles",
                result |-> get_eligible_profiles(challenge)]
    /\ UNCHANGED <<now, profVars, chVars, cardVars, scanVars, saveVars, entryVars, pointVars, giftVars>>

InitCalc ==
    /\ now = 0
    /\ \E a \in {0, 2000}, b \in {7, 1500} :
         points = [p \in Profiles |-> IF p = "p1" THEN a ELSE IF p = "p2" THEN b ELSE 0]
    /\ profile_completed \in [Profiles -> BOOLEAN]
    /\ \E ps \in SUBSET {"p1", "p3"} :
         scans = {[profile |-> p, pack |-> "A", points_awarded |-> 10] : p \in ps}
    /\ \E mp \in {0, 1000}, ms \in {0, 1}, cs \in {{}, {"nairobi"}},
          pw \in PointsWeights, rw \in ReferralsWeights :
         challenge = [NewChallenge EXCEPT !.status = "active",
                                          !.min_points_required = mp,
                                          !.min_scans_required = ms,
                                          !.counties_eligible = cs,
                                          !.points_weight = pw,
                                          !.referrals_weight = rw]
    /\ DrawsIdle
    /\ packs = NewPacks
    /\ collections = NewCollections(NoCollection, 3)
    /\ ucc = {}
    /\ completions = {}
    /\ partner_total = 0
    /\ ledger = {}
    /\ ScansIdle
    /\ SavesIdle
    /\ NoEntries
    /\ PointsIdle
    /\ GiftsIdle
    /\ calc = NoCalc

NextCalc ==
    \/ call_calculate_entry_weight
    \/ call_get_effective_weight
    \/ call_get_eligible_profiles

SpecCalc == InitCalc /\ [][NextCalc]_vars

\* C13: every weight a draw or a reveal uses is strictly positive: the entry
\* weight is at least 1.0 and the effective weight of a pool card is above 0.
C13_WeightsStrictlyPositive ==
    /\ calc.fn = "calculate_entry_weight" => calc.result >= WeightUnit
    /\ calc.fn = "get_effective_weight" => calc.result > 0

\* C14: the entry weight is max(1.0, 1.0 + points * points_weight / 1000 (when
\* points > 0) + referral_count * referrals_weight (when referral_count > 0));
\* no points and no referrals give exactly 1.0; 2000 points at points_weight
\* 1.0 with no referrals give exactly 3.0.
C14_EntryWeightFormula ==
    calc.fn = "calculate_entry_weight" =>
        LET pts == points[calc.profile]
            referral_count == successful_referrals_count(calc.profile)
            from_points == IF pts > 0 THEN pts * challenge.points_weight ELSE 0
            from_referrals ==
                IF referral_count > 0
                THEN referral_count * challenge.referrals_weight * 1000
                ELSE 0
            raw == WeightUnit + from_points + from_referrals
        IN /\ calc.result = (IF raw < WeightUnit THEN WeightUnit ELSE raw)
           /\ (pts = 0 /\ referral_count = 0 => calc.result = 100000)
           /\ (pts = 2000 /\ challenge.points_weight = 100 /\ referral_count = 0
                 => calc.result = 300000)
C14_Witness ==
    /\ calc.fn = "calculate_entry_weight"
    /\ points[calc.profile] = 2000
    /\ challenge.points_weight = 100
    /\ successful_referrals_count(calc.profile) = 0
    /\ calc.result = 300000

\* C15: the effective weight of a card is the base weight of its rarity
\* (common 60, uncommon 30, rare 10) times its drop multiplier: a common card
\* at 1.0 weighs 60.0, an uncommon card at 0.5 weighs 15.0.
C15_EffectiveWeightFormula ==
    calc.fn = "get_effective_weight" =>
        /\ (calc.self.rarity = "common" => calc.result = 60 * calc.self.drop_weight)
        /\ (calc.self.rarity = "uncommon" => calc.result = 30 * calc.self.drop_weight)
        /\ (calc.self.rarity = "rare" => calc.result = 10 * calc.self.drop_weight)
        /\ (calc.self.rarity = "common" /\ calc.self.drop_weight = 10 => calc.result = 600)
        /\ (calc.self.rarity = "uncommon" /\ calc.self.drop_weight = 5 => calc.result = 150)
C15_Witness ==
    /\ calc.fn = "get_effective_weight"
    /\ calc.self.rarity = "uncommon"
    /\ calc.self.drop_weight = 5
    /\ calc.result = 150

\* C16: get_eligible_profiles returns exactly the completed profiles that
\* meet the points minimum (0 disables it), the scan minimum (0 disables it)
\* and, when a county list is set, the county list; the call changes nothing.
C16_EligibleProfilesExact ==
    [][calc'.fn = "get_eligible_profiles" =>
         /\ calc'.result =
              {p \in Profiles :
                 /\ profile_completed[p]
                 /\ (challenge.min_points_required = 0
                       \/ points[p] >= challenge.min_points_required)
                 /\ (challenge.min_scans_required = 0
                       \/ Cardinality({s \in scans : s.profile = p})
                            >= challenge.min_scans_required)
                 /\ (challenge.counties_eligible = {}
                       \/ County[p] \in challenge.counties_eligible)}
         /\ UNCHANGED <<now, profVars, chVars, cardVars, scanVars, saveVars, entryVars, pointVars, giftVars>>]_vars
C16_Witness ==
    /\ calc.fn = "get_eligible_profiles"
    /\ \A p \in Profiles : profile_completed[p]
    /\ challenge.min_points_required = 1000
    /\ challenge.min_scans_required = 1
    /\ challenge.counties_eligible # {}
    /\ points["p2"] = 1500
    /\ calc.result = {"p1"}

C18_OneRowPerReveal ==
    [][\A r \in Reqs :
          /\ (srevealed[r].card = NoCard /\ srevealed'[r].card # NoCard) =>
                LET new == tx'[r].cards \ tx[r].cards
                IN /\ Cardinality(new) = 1
                   /\ \A u \in new :
                        /\ u.profile = sprofile[r]
                        /\ u.card = srevealed'[r].card
                        /\ u.is_duplicate <=>
                             \E v \in ucc \cup tx[r].cards :
                                /\ v.profile = u.profile
                                /\ v.card = u.card
                                /\ ~v.is_duplicate
          /\ (srevealed[r].card # NoCard /\ spc[r] = "commit" /\ spc'[r] = "idle") =>
                /\ Cardinality(ucc' \ ucc) = 1
                /\ Cardinality(ucc') = Cardinality(ucc) + 1
                /\ \A u \in ucc' \ ucc :
                        /\ u.profile = sprofile[r]
                        /\ u.card = srevealed[r].card
                        /\ u.is_duplicate <=>
                             \E v \in ucc :
                                /\ v.profile = u.profile
                                /\ v.card = u.card
                                /\ ~v.is_duplicate]_vars
C18_Witness ==
    /\ \E u \in ucc : u.from_pack # NoCode /\ u.is_duplicate
    /\ \E u \in ucc : u.from_pack # NoCode /\ ~u.is_duplicate
    /\ sresponse = "accepted"

\* C19: a reveal credits the reward_points of the selected card when the
\* card is new to the profile and 5 points when it is a duplicate; apart from
\* the milestone bonus and the completion bonus the balance of the profile
\* moves by exactly that amount, and that balance is what the scan commits.
C19_BaseRewardCredited ==
    [][\A r \in Reqs :
          /\ (srevealed[r].card = NoCard /\ srevealed'[r].card # NoCard) =>
                LET k == srevealed'[r].card
                    c == EstateCard[k].collection
                    dup == srevealed'[r].is_duplicate
                    amount == IF dup THEN 5 ELSE EstateCard[k].reward_points
                    mine == {u \in ucc \cup tx'[r].cards :
                                /\ u.profile = sprofile[r]
                                /\ EstateCard[u.card].collection = c
                                /\ ~u.is_duplicate}
                    milestone == IF Cardinality({u.card : u \in mine}) = 3 /\ ~dup
                                 THEN 100 ELSE 0
                    completion == IF tx'[r].comps # tx[r].comps
                                  THEN collections[c].completion_reward_points ELSE 0
                IN /\ tx'[r].points = tx[r].points + amount + milestone + completion
                   /\ dup => tx'[r].points = tx[r].points + 5
          /\ (srevealed[r].card # NoCard /\ spc[r] = "commit" /\ spc'[r] = "idle") =>
                points'[sprofile[r]] = tx[r].points]_vars
C19_Witness ==
    \E r \in Reqs :
        /\ spc[r] = "commit"
        /\ srevealed[r].card # NoCard
        /\ ~srevealed[r].is_duplicate
        /\ EstateCard[srevealed[r].card].reward_points = 25
        /\ tx[r].points = points[sprofile[r]] + packs[scode[r]].points + 25

\* C20: a reveal of a card that is not a duplicate, after which the profile
\* holds at least total_cards distinct non-duplicate cards of the collection
\* while no completion exists for the pair, records a CollectionCompletion row
\* and credits completion_reward_points; a duplicate reveal, or one that
\* leaves the count below total_cards, records no completion.
C20_CompletionOnReachingTotal ==
    [][\A r \in Reqs :
          /\ (srevealed[r].card = NoCard /\ srevealed'[r].card # NoCard) =>
                LET p == sprofile[r]
                    k == srevealed'[r].card
                    c == EstateCard[k].collection
                    dup == srevealed'[r].is_duplicate
                    count == Cardinality({u.card : u \in
                                {v \in ucc \cup tx'[r].cards :
                                    /\ v.profile = p
                                    /\ EstateCard[v.card].collection = c
                                    /\ ~v.is_duplicate}})
                    had == \E m \in completions \cup tx[r].comps :
                              m.profile = p /\ m.collection = c
                    reward == collections[c].completion_reward_points
                    new == tx'[r].comps \ tx[r].comps
                IN /\ (~dup /\ count >= collections[c].total_cards /\ ~had) =>
                        /\ Cardinality(new) = 1
                        /\ \A m \in new : /\ m.profile = p
                                          /\ m.collection = c
                                          /\ m.points_awarded = reward
                        /\ tx'[r].points - tx[r].points - reward
                              \in {EstateCard[k].reward_points,
                                   EstateCard[k].reward_points + 100}
                   /\ (dup \/ count < collections[c].total_cards) =>
                        /\ new = {}
                        /\ tx'[r].points - tx[r].points < reward
          /\ (spc[r] = "commit" /\ spc'[r] = "idle") =>
                /\ completions' = completions \cup tx[r].comps
                /\ tx[r].comps # {} => points'[sprofile[r]] = tx[r].points]_vars
C20_Witness ==
    \E m \in completions :
        /\ m.from_pack # NoCode
        /\ m.points_awarded = collections[m.collection].completion_reward_points
        /\ total_unique(ucc, m.profile, m.collection) = collections[m.collection].total_cards
        /\ \E u \in ucc : /\ u.from_pack = m.from_pack
                          /\ u.profile = m.profile
                          /\ ~u.is_duplicate
        /\ points[m.profile] >= PointsAtScan[m.profile] + m.points_awarded

(***************************************************************************)
(* The weighted draw of reveal_card_for_scan on its own, over pools of     *)
(* cards of every weight and every value of the random draw.               *)
(***************************************************************************)
MaxPool == 2

\* the querysets of active cards of up to MaxPool cards
Pools == UNION {[1..n -> {PoolCard(rarity, drop_weight) :
                             rarity \in Rarities, drop_weight \in DropWeights}] :
                n \in 1..MaxPool}

\* the walk and the fallback on the queryset and the random_point at hand
call_weighted_draw ==
    /\ calc.fn = "weighted_draw"
    /\ ~calc.returned
    /\ \E selected \in weighted_draw(calc.cards, calc.random_point) :
          calc' = [calc EXCEPT !.walked = first_hit(calc.cards, calc.random_point),
                               !.selected = selected,
                               !.returned = TRUE]
    /\ UNCHANGED <<now, profVars, chVars, cardVars, scanVars, saveVars, entryVars, pointVars, giftVars>>

InitPool ==
    /\ now = 0
    /\ points = PointsAtScan
    /\ profile_completed = [p \in Profiles |-> TRUE]
    /\ scans = {}
    /\ challenge = NewChallenge
    /\ DrawsIdle
    /\ packs = NewPacks
    /\ collections = NewCollections("c1", 2)
    /\ ucc = {}
    /\ completions = {}
    /\ partner_total = 0
    /\ ledger = {}
    /\ ScansIdle
    /\ SavesIdle
    /\ NoEntries
    /\ PointsIdle
    /\ GiftsIdle
    /\ \E cards \in Pools :
         \E random_point \in uniform_points(cards) :
            calc = [fn |-> "weighted_draw", cards |-> cards,
                    random_point |-> random_point,
                    walked |-> 0, selected |-> 0, returned |-> FALSE]

NextPool == call_weighted_draw

SpecPool == InitPool /\ [][NextPool]_vars

\* C21: for a pool that is not empty the weighted draw ends with exactly one
\* selected card, a member of the pool, whatever the value of the random
\* draw: the card the cumulative walk stopped at, or any card of the pool
\* when the walk stopped at none.
C21_DrawSelectsOnePoolCard ==
    (calc.fn = "weighted_draw" /\ calc.returned) =>
        /\ calc.selected \in 1..Len(calc.cards)
        /\ calc.walked # 0 => calc.selected = calc.walked
C21_Witness ==
    /\ calc.fn = "weighted_draw"
    /\ calc.returned
    /\ Len(calc.cards) = 2
    /\ calc.walked = 0
    /\ calc.selected = 2

(***************************************************************************)
(* Points: redemptions, transfers and invites (views.py, models.py)        *)
(***************************************************************************)
MaxOps == 3

\* the PointTransferSettings row apart from the fee, as the admin set it
transfer_settings ==
    [transfer_enabled |-> TRUE, min_transfer_amount |-> 10,
     max_transfer_amount |-> 100, daily_transfer_limit |-> 80]
\* the ReferralSettings row (the defaults of the model)
referral_settings == [points_for_referrer |-> 50, points_for_referee |-> 20]
\* the active Reward and the approved, active ProductListing
reward == [cost_points |-> 100]
product == [points_required |-> 100, redemption_limit |-> 1]

notPoints == <<now, chVars, cardVars, scanVars, saveVars, calcVars, entryVars, giftVars>>

PointReturn(r) ==
    /\ tpc' = [tpc EXCEPT ![r] = "idle"]
    /\ tself' = [tself EXCEPT ![r] = NoPointRequest]

\* int(amount * (settings.transfer_fee_percentage / 100))
transfer_fee(amount, percentage) == (amount * percentage) \div 100

\* redeem_reward_htmx up to the balance check: request.user.profile is loaded
redeem_reward_htmx(r, p) ==
    /\ nops < MaxOps
    /\ TakesRequest(tpc, r)
    /\ p \in registered
    /\ nops' = nops + 1
    /\ tpc' = [tpc EXCEPT ![r] = "post"]
    /\ tself' = [tself EXCEPT ![r] =
            [kind |-> "reward", op |-> nops + 1, profile |-> p,
             points |-> points[p]]]
    /\ UNCHANGED <<profVars, registered, fee, transfers, invites, redemptions,
                   referred_by, stock, held, released, notPoints>>

\* redeem_reward_htmx from the balance check on: the check on the loaded
\* profile, then the atomic block
redeem_reward_commit(r) ==
    /\ tpc[r] = "post"
    /\ tself[r].kind = "reward"
    /\ LET s == tself[r] IN
        IF s.points < reward.cost_points
        THEN UNCHANGED <<points, redemptions>>
        ELSE /\ points' = [points EXCEPT ![s.profile] = s.points - reward.cost_points]
             /\ redemptions' = redemptions \cup
                    {[op |-> s.op, profile |-> s.profile, of |-> "reward",
                      points_deducted |-> reward.cost_points]}
    /\ PointReturn(r)
    /\ UNCHANGED <<profile_completed, scans, registered, fee, transfers, invites,
                   nops, referred_by, stock, held, released, notPoints>>

\* redeem_product up to the POST: the profile and the product are loaded and
\* ProductListing.can_redeem is asked (stock, balance, redemption_limit); the
\* request ends there when it refuses
redeem_product(r, p) ==
    /\ nops < MaxOps
    /\ TakesRequest(tpc, r)
    /\ p \in registered
    /\ nops' = nops + 1
    /\ IF /\ stock > 0
          /\ ~(points[p] < product.points_required)
          /\ ~(Cardinality({x \in redemptions : x.of = "product" /\ x.profile = p})
                  >= product.redemption_limit)
       THEN /\ tpc' = [tpc EXCEPT ![r] = "post"]
            /\ tself' = [tself EXCEPT ![r] =
                    [kind |-> "product", op |-> nops + 1, profile |-> p,
                     points |-> points[p], stock_quantity |-> stock]]
       ELSE UNCHANGED <<tpc, tself>>
    /\ UNCHANGED <<profVars, registered, fee, transfers, invites, redemptions,
                   referred_by, stock, held, released, notPoints>>

\* redeem_product, the atomic block: the balance, the ProductRedemption row
\* and the stock are written, then 'listing_partner.melvins_commission_earned
\* += ...' raises AttributeError (the field is Melvins_commission_earned),
\* the block is rolled back and the view reports the error
redeem_product_commit(r) ==
    /\ tpc[r] = "post"
    /\ tself[r].kind = "product"
    /\ PointReturn(r)
    /\ UNCHANGED <<profVars, registered, fee, transfers, invites, redemptions,
                   nops, referred_by, stock, held, released, notPoints>>

\* transfer_points up to the form: the profile, the settings and the total
\* transferred today are loaded
transfer_points(r, p, recipient_phone, amount) ==
    /\ nops < MaxOps
    /\ TakesRequest(tpc, r)
    /\ p \in registered
    /\ transfer_settings.transfer_enabled
    /\ nops' = nops + 1
    /\ tpc' = [tpc EXCEPT ![r] = "post"]
    /\ tself' = [tself EXCEPT ![r] =
            [kind |-> "transfer", op |-> nops + 1, profile |-> p,
             points |-> points[p], fee_percentage |-> fee,
             today_transfers |->
                 SumAmounts({t \in transfers : t.sender = p
                                               /\ t.status = "completed"}),
             recipient_phone |-> recipient_phone, amount |-> amount]]
    /\ UNCHANGED <<profVars, registered, fee, transfers, invites, redemptions,
                   referred_by, stock, held, released, notPoints>>

\* the validation of the posted form, in the order of the view: the reason
\* the request is turned down for, or "none"
transfer_rejection(s) ==
    LET remaining_limit == transfer_settings.daily_transfer_limit - s.today_transfers
        total_deduction == s.amount + transfer_fee(s.amount, s.fee_percentage)
    IN  IF s.recipient_phone = s.profile THEN "self"
        ELSE IF s.amount < transfer_settings.min_transfer_amount THEN "min"
        ELSE IF s.amount > transfer_settings.max_transfer_amount THEN "max"
        ELSE IF s.amount > remaining_limit THEN "daily"
        ELSE IF s.points < total_deduction THEN "balance"
        ELSE "none"

\* transfer_points from the validation on: the transfer to a registered
\* recipient, or the invite that holds the points for a phone without profile
transfer_points_post(r) ==
    /\ tpc[r] = "post"
    /\ tself[r].kind = "transfer"
    /\ LET s == tself[r]
           transfer_fee_ == transfer_fee(s.amount, s.fee_percentage)
           total_deduction == s.amount + transfer_fee_
           net_amount == s.amount
           existing_invite == {i \in invites : /\ i.inviter = s.profile
                                               /\ i.phone = s.recipient_phone
                                               /\ ~i.accepted}
       IN  IF transfer_rejection(s) # "none"
           THEN UNCHANGED <<points, transfers, invites, held>>
           ELSE IF s.recipient_phone \in registered
           THEN /\ points' = [points EXCEPT
                        ![s.profile] = s.points - total_deduction,
                        ![s.recipient_phone] = points[s.recipient_phone] + net_amount]
                /\ transfers' = transfers \cup
                        {[op |-> s.op, sender |-> s.profile,
                          recipient |-> s.recipient_phone, amount |-> s.amount,
                          fee |-> transfer_fee_, net_amount |-> net_amount,
                          status |-> "completed", was_invite |-> FALSE]}
                /\ UNCHANGED <<invites, held>>
           ELSE IF existing_invite # {}
           THEN UNCHANGED <<points, transfers, invites, held>>
           ELSE /\ points' = [points EXCEPT ![s.profile] = s.points - total_deduction]
                /\ invites' = invites \cup
                        {[id |-> s.op, inviter |-> s.profile,
                          phone |-> s.recipient_phone,
                          points_promised |-> net_amount, accepted |-> FALSE]}
                /\ held' = held \cup
                        {[invite |-> s.op, deducted |-> total_deduction,
                          points_promised |-> net_amount]}
                /\ UNCHANGED transfers
    /\ PointReturn(r)
    /\ UNCHANGED <<profile_completed, scans, registered, fee, redemptions,
                   nops, referred_by, stock, released, notPoints>>

\* cancel_invite up to the POST: the profile and its pending invite are loaded
cancel_invite(r, p, invite) ==
    /\ nops < MaxOps
    /\ TakesRequest(tpc, r)
    /\ p \in registered
    /\ invite \in invites
    /\ invite.inviter = p
    /\ ~invite.accepted
    /\ nops' = nops + 1
    /\ tpc' = [tpc EXCEPT ![r] = "post"]
    /\ tself' = [tself EXCEPT ![r] =
            [kind |-> "cancel", op |-> nops + 1, profile |-> p,
             points |-> points[p], invite |-> invite]]
    /\ UNCHANGED <<profVars, registered, fee, transfers, invites, redemptions,
                   referred_by, stock, held, released, notPoints>>

\* cancel_invite, the atomic block: the refund, with the fee computed from
\* the settings as they are now, and invite.delete()
cancel_invite_post(r) ==
    /\ tpc[r] = "post"
    /\ tself[r].kind = "cancel"
    /\ LET s == tself[r]
           refund_amount == s.invite.points_promised
                              + transfer_fee(s.invite.points_promised, fee)
       IN  /\ points' = [points EXCEPT ![s.profile] = s.points + refund_amount]
           /\ invites' = {i \in invites : i.id # s.invite.id}
           /\ released' = released \cup
                  {[invite |-> s.invite.id, op |-> s.op, by |-> "refund",
                    amount |-> refund_amount]}
    /\ PointReturn(r)
    /\ UNCHANGED <<profile_completed, scans, registered, fee, transfers,
                   redemptions, nops, referred_by, stock, held, notPoints>>

\* verify_otp for a phone without profile: Profile.objects.create
verify_otp(phone) ==
    /\ phone \notin registered
    /\ registered' = registered \cup {phone}
    /\ points' = [points EXCEPT ![phone] = 0]
    /\ profile_completed' = [profile_completed EXCEPT ![phone] = FALSE]
    /\ UNCHANGED <<scans, fee, transfers, invites, redemptions, nops, tpc, tself,
                   referred_by, stock, held, released, notPoints>>

\* the pending invites of a phone, newest first (Meta.ordering)
RECURSIVE newest_first(_)
newest_first(is) ==
    IF is = {} THEN <<>>
    ELSE LET i == CHOOSE x \in is : \A y \in is : y.id <= x.id
         IN  <<i>> \o newest_first(is \ {i})

\* complete_profile up to the loop of process_pending_invites: the referral
\* code is applied, the profile is saved and the pending invites are read
complete_profile(r, p, referral_code) ==
    /\ nops < MaxOps
    /\ TakesRequest(tpc, r)
    /\ p \in registered
    /\ ~profile_completed[p]
    /\ referral_code \in {NoProfile} \cup (registered \ {p})
    /\ LET applies == referral_code # NoProfile /\ referred_by[p] = NoProfile
           loaded == IF applies
                     THEN points[p] + referral_settings.points_for_referee
                     ELSE points[p]
           referrer == IF applies THEN referral_code ELSE referred_by[p]
       IN  /\ points' = [q \in Profiles |->
                    IF q = p THEN loaded
                    ELSE IF applies /\ q = referral_code
                    THEN points[q] + referral_settings.points_for_referrer
                    ELSE points[q]]
           /\ referred_by' = [referred_by EXCEPT ![p] = referrer]
           /\ tself' = [tself EXCEPT ![r] =
                  [kind |-> "complete", op |-> nops + 1, profile |-> p,
                   points |-> loaded, referred_by |-> referrer,
                   pending_invites |->
                       newest_first({i \in invites : i.phone = p /\ ~i.accepted})]]
    /\ profile_completed' = [profile_completed EXCEPT ![p] = TRUE]
    /\ nops' = nops + 1
    /\ tpc' = [tpc EXCEPT ![r] = "invites"]
    /\ UNCHANGED <<scans, registered, fee, transfers, invites, redemptions,
                   stock, held, released, notPoints>>

\* process_pending_invites, one pass of the loop: the atomic block for the
\* next invite read.  messages.info(None, ...) raises TypeError when the new
\* profile was referred by the inviter; Referral.objects.create raises
\* IntegrityError when the new profile has a Referral row already.  Either
\* rolls the block back and ends the request.
process_pending_invites(r) ==
    /\ tpc[r] = "invites"
    /\ LET s == tself[r] IN
        IF s.pending_invites = <<>>
        THEN /\ PointReturn(r)
             /\ UNCHANGED <<points, transfers, invites, referred_by, released>>
        ELSE LET invite == Head(s.pending_invites)
                 credited == s.points + invite.points_promised
                                      + referral_settings.points_for_referee
             IN  IF s.referred_by # NoProfile
                 THEN /\ PointReturn(r)
                      /\ UNCHANGED <<points, transfers, invites, referred_by, released>>
                 ELSE /\ points' = [points EXCEPT
                              ![s.profile] = credited,
                              ![invite.inviter] = points[invite.inviter]
                                    + referral_settings.points_for_referrer]
                      /\ transfers' = transfers \cup
                              {[op |-> s.op, sender |-> invite.inviter,
                                recipient |-> s.profile,
                                amount |-> invite.points_promised, fee |-> 0,
                                net_amount |-> invite.points_promised,
                                status |-> "completed", was_invite |-> TRUE]}
                      /\ referred_by' = [referred_by EXCEPT ![s.profile] = invite.inviter]
                      /\ invites' = {i \in invites : i.id # invite.id} \cup
                              {[invite EXCEPT !.accepted = TRUE]}
                      /\ released' = released \cup
                              {[invite |-> invite.id, op |-> s.op, by |-> "credit",
                                amount |-> invite.points_promised]}
                      /\ tpc' = tpc
                      /\ tself' = [tself EXCEPT ![r] =
                              [s EXCEPT !.points = credited,
                                        !.referred_by = invite.inviter,
                                        !.pending_invites = Tail(s.pending_invites)]]
    /\ UNCHANGED <<profile_completed, scans, registered, fee, redemptions, nops,
                   stock, held, notPoints>>

\* the admin saves PointTransferSettings with another fee percentage
change_fee(percentage) ==
    /\ percentage # fee
    /\ fee' = percentage
    /\ UNCHANGED <<profVars, registered, transfers, invites, redemptions, nops,
                   tpc, tself, referred_by, stock, held, released, notPoints>>

(***************************************************************************)
(* Points: initial states and specification                                *)
(***************************************************************************)
InitPoints ==
    /\ now = 0
    /\ points = [p \in Profiles |-> IF p = "p1" THEN 150 ELSE 0]
    /\ profile_completed = [p \in Profiles |-> p # "p3"]
    /\ scans = {}
    /\ challenge = NewChallenge
    /\ DrawsIdle
    /\ packs = NewPacks
    /\ collections = NewCollections("c1", 2)
    /\ ucc = {}
    /\ completions = {}
    /\ partner_total = 0
    /\ ledger = {}
    /\ ScansIdle
    /\ SavesIdle
    /\ NoEntries
    /\ GiftsIdle
    /\ calc = NoCalc
    /\ registered = {"p1", "p2"}
    /\ fee \in {0, 10}
    /\ transfers = {}
    /\ invites = {}
    /\ redemptions = {}
    /\ nops = 0
    /\ tpc = [r \in Reqs |-> "idle"]
    /\ tself = [r \in Reqs |-> NoPointRequest]
    /\ referred_by = [p \in Profiles |-> NoProfile]
    /\ stock = 1
    /\ held = {}
    /\ released = {}

NextPoints ==
    \/ \E r \in Reqs, p \in {"p1"} : redeem_reward_htmx(r, p)
    \/ \E r \in Reqs : redeem_reward_commit(r)
    \/ \E r \in Reqs, p \in {"p1"} : redeem_product(r, p)
    \/ \E r \in Reqs : redeem_product_commit(r)
    \/ \E r \in Reqs, p \in {"p1"}, phone \in Profiles, amount \in {5, 50, 120} :
          transfer_points(r, p, phone, amount)
    \/ \E r \in Reqs : transfer_points_post(r)
    \/ \E r \in Reqs, p \in {"p1"}, invite \in invites : cancel_invite(r, p, invite)
    \/ \E r \in Reqs : cancel_invite_post(r)
    \/ \E phone \in Profiles : verify_otp(phone)
    \/ \E r \in Reqs, p \in Profiles, code \in Profiles \cup {NoProfile} :
          complete_profile(r, p, code)
    \/ \E r \in Reqs : process_pending_invites(r)
    \/ \E percentage \in {0, 10} : change_fee(percentage)

SpecPoints == InitPoints /\ [][NextPoints]_vars

(***************************************************************************)
(* Properties of redemptions, transfers and invites                        *)
(***************************************************************************)
\* C27: no balance is ever negative, and a debit (redeem_reward_htmx,
\* redeem_product, transfer_points) is carried out only when the balance of
\* the profile covers its amount; otherwise the request changes nothing.
C27_NoDebitBelowBalance ==
    [][/\ \A p \in Profiles : points'[p] >= 0
       /\ \A r \in Reqs :
            LET s == tself[r]
                debit == IF s.kind = "reward" THEN reward.cost_points
                         ELSE IF s.kind = "product" THEN product.points_required
                         ELSE s.amount + transfer_fee(s.amount, s.fee_percentage)
            IN  /\ tpc[r] = "post"
                /\ tpc'[r] = "idle"
                /\ s.kind \in {"reward", "product", "transfer"}
                => IF points[s.profile] >= debit
                   THEN points'[s.profile] \in {points[s.profile],
                                                points[s.profile] - debit}
                   ELSE UNCHANGED <<points, redemptions, transfers, invites, stock>>]_vars

\* C28: a completed transfer to a registered recipient takes amount + fee
\* from the balance of the sender, adds exactly amount to the balance of the
\* recipient and records one PointTransfer row; a request that violates a
\* limit (minimum, maximum, daily limit, self-transfer, balance) changes
\* nothing.
C28_TransferFrame ==
    [][\A r \in Reqs :
        LET s == tself[r] IN
        (tpc[r] = "post" /\ tpc'[r] = "idle" /\ s.kind = "transfer") =>
            /\ transfers' # transfers =>
                /\ points'[s.profile] = points[s.profile]
                        - (s.amount + transfer_fee(s.amount, s.fee_percentage))
                /\ points'[s.recipient_phone] = points[s.recipient_phone] + s.amount
                /\ \A p \in Profiles \ {s.profile, s.recipient_phone} :
                        points'[p] = points[p]
                /\ Cardinality(transfers' \ transfers) = 1
                /\ transfers \subseteq transfers'
            /\ transfer_rejection(s) # "none" =>
                UNCHANGED <<points, transfers, invites>>]_vars

\* C29: the points an invite holds are released once: a refund of exactly
\* what was deducted when the invite was created, or a credit of
\* points_promised to the profile that registered, never both and never
\* twice.
C29_InviteReleasedOnce ==
    \A h \in held :
        LET payouts == {x \in released : x.invite = h.invite} IN
        /\ Cardinality(payouts) <= 1
        /\ \A x \in payouts :
              /\ x.by = "refund" => x.amount = h.deducted
              /\ x.by = "credit" => x.amount = h.points_promised

(***************************************************************************)
(* Live draw and reset (views.py challenge_live_draw, admin.py,            *)
(* management/commands/reset_challenge.py)                                 *)
(***************************************************************************)
notDraw == <<now, profVars, cardVars, scanVars, saveVars, calcVars, entryVars,
             pointVars, giftVars>>

\* challenge_live_draw by a staff user: the end_date test, the test for
\* existing winners, the count of eligible profiles, then draw_in_progress
\* = True saved with update_fields
challenge_live_draw ==
    /\ ~(challenge.end_date > now)
    /\ winners = {}
    /\ LET total_entries == Cardinality(get_eligible_profiles(challenge))
       IN  /\ total_entries # 0
           /\ ~(total_entries < challenge.number_of_winners)
    /\ ~challenge.draw_in_progress
    /\ challenge' = [challenge EXCEPT !.draw_in_progress = TRUE]
    /\ UNCHANGED <<notDraw, winners, nreq, dpc, dkind, dself, drecs, dhad,
                   response, dprofiles>>

\* the admin action start_live_draw_action on the challenge
start_live_draw_action ==
    /\ challenge.status # "winners_selected"
    /\ ~(challenge.end_date > now)
    /\ ~challenge.draw_in_progress
    /\ challenge' = [challenge EXCEPT !.draw_in_progress = TRUE]
    /\ UNCHANGED <<notDraw, winners, nreq, dpc, dkind, dself, drecs, dhad,
                   response, dprofiles>>

\* the admin action reset_draw_status: queryset.update(draw_in_progress=False)
reset_draw_status ==
    /\ challenge.draw_in_progress
    /\ challenge' = [challenge EXCEPT !.draw_in_progress = FALSE]
    /\ UNCHANGED <<notDraw, winners, nreq, dpc, dkind, dself, drecs, dhad,
                   response, dprofiles>>

\* reset_challenge up to the prompt: the challenge is loaded and its winners
\* are counted; the command ends when there is none, or without --confirm
reset_challenge(r, confirm) ==
    /\ TakesRequest(dpc, r)
    /\ dkind' = [dkind EXCEPT ![r] = IF confirm THEN "reset --confirm" ELSE "reset"]
    /\ IF winners = {}
       THEN DrawReturn(r, Response(r, "no_winners", {}))
       ELSE IF ~confirm
       THEN DrawReturn(r, Response(r, "dry_run", {}))
       ELSE /\ dpc' = [dpc EXCEPT ![r] = "input"]
            /\ dself' = [dself EXCEPT ![r] = challenge]
            /\ UNCHANGED <<drecs, dhad, response, dprofiles>>
    /\ UNCHANGED <<notDraw, challenge, winners, nreq>>

\* the fields reset_challenge sets on the loaded challenge
status_only(self) == [self EXCEPT !.status = "ended"]
reset_fields(self) ==
    [self EXCEPT !.status = "ended",
                 !.draw_in_progress = FALSE,
                 !.winners_selected_at = NoTime,
                 !.draw_completed_at = NoTime,
                 !.total_entries = 0]

\* reset_challenge from the prompt on: winners.delete(), then the fields of
\* the loaded object are set and challenge.save() writes all of them
reset_challenge_input(r, user_input) ==
    /\ dpc[r] = "input"
    /\ IF user_input # "DELETE"
       THEN /\ DrawReturn(r, Response(r, "cancelled", {}))
            /\ UNCHANGED <<challenge, winners>>
       ELSE /\ winners' = {}
            /\ challenge' = reset_fields(dself[r])
            /\ DrawReturn(r, Response(r, "reset", {}))
    /\ UNCHANGED <<notDraw, nreq, dkind>>

InitLive ==
    /\ now = 1
    /\ points = PointsAtDraw
    /\ profile_completed = [p \in Profiles |-> TRUE]
    /\ scans = {}
    /\ \E n \in 1..MaxWinners :
         challenge = [NewChallenge EXCEPT !.status = "active",
                                          !.number_of_winners = n]
    /\ DrawsIdle
    /\ packs = NewPacks
    /\ collections = NewCollections(NoCollection, 3)
    /\ ucc = {}
    /\ completions = {}
    /\ partner_total = 0
    /\ ledger = {}
    /\ ScansIdle
    /\ SavesIdle
    /\ NoEntries
    /\ PointsIdle
    /\ GiftsIdle
    /\ calc = NoCalc

NextLive ==
    \/ challenge_live_draw
    \/ start_live_draw_action
    \/ reset_draw_status
    \/ \E r \in Reqs : select_challenge_winners_view(r)
    \/ \E r \in Reqs : challenge_select_winners_ajax(r)
    \/ \E r \in Reqs : ajax_existing_winners(r)
    \/ \E r \in Reqs : select_winners(r)
    \/ \E r \in Reqs : create_winner(r)
    \/ \E r \in Reqs : save_winners_selected(r)
    \/ \E r \in Reqs, confirm \in BOOLEAN : reset_challenge(r, confirm)
    \/ \E r \in Reqs, user_input \in {"DELETE", "delete"} :
          reset_challenge_input(r, user_input)

SpecLive == InitLive /\ [][NextLive]_vars

\* the reset command next to the draws of select_challenge_winners_view
NextReset ==
    \/ challenge_live_draw
    \/ \E r \in Reqs : select_challenge_winners_view(r)
    \/ \E r \in Reqs : select_winners(r)
    \/ \E r \in Reqs : create_winner(r)
    \/ \E r \in Reqs : save_winners_selected(r)
    \/ \E r \in Reqs, confirm \in BOOLEAN : reset_challenge(r, confirm)
    \/ \E r \in Reqs, user_input \in {"DELETE", "delete"} :
          reset_challenge_input(r, user_input)

SpecReset == InitLive /\ [][NextReset]_vars

(***************************************************************************)
(* Properties of the live draw and the reset                               *)
(***************************************************************************)
\* C24: a challenge whose status is winners_selected has exactly
\* number_of_winners ChallengeWinner rows, at the positions 1 to
\* number_of_winners, whatever draws, failed draws, repeated AJAX calls and
\* resets came before.
C24_SelectedHasAllWinners ==
    challenge.status = "winners_selected" =>
        /\ Cardinality(winners) = challenge.number_of_winners
        /\ {w.position : w \in winners} = 1..challenge.number_of_winners

\* C25: when challenge_select_winners_ajax returns to a staff caller, on
\* whichever path, draw_in_progress is False.
C25_AjaxClearsDrawInProgress ==
    [][\A r \in Reqs :
        (dkind[r] = "ajax" /\ dpc[r] # "idle" /\ dpc'[r] = "idle")
            => ~challenge'.draw_in_progress]_vars

\* C26 as stated: a run of reset_challenge without --confirm, or with a typed
\* confirmation other than DELETE, changes nothing, and a run with --confirm
\* that is not cancelled at the prompt deletes every winner row and sets
\* status ended, draw_in_progress False, winners_selected_at and
\* draw_completed_at empty and total_entries 0.
C26_ConfirmedResetResets ==
    [][\A r \in Reqs :
        (dpc'[r] = "idle" /\ response'.to = r /\
            \/ dpc[r] = "input"
            \/ /\ dpc[r] = "idle"
               /\ response'.outcome \in {"no_winners", "dry_run"}
               /\ <<response, dkind>>' # <<response, dkind>>) =>
            IF dkind'[r] = "reset" \/ response'.outcome = "cancelled"
            THEN UNCHANGED <<challenge, winners>>
            ELSE /\ winners' = {}
                 /\ challenge'.status = "ended"
                 /\ ~challenge'.draw_in_progress
                 /\ challenge'.winners_selected_at = NoTime
                 /\ challenge'.draw_completed_at = NoTime
                 /\ challenge'.total_entries = 0]_vars

\* C26, amended: a run of reset_challenge without --confirm, with a typed
\* confirmation other than DELETE, or on a challenge that has no winner row
\* when the command starts changes nothing; a run with --confirm and DELETE
\* on a challenge that had winner rows when the command started deletes
\* every winner row and sets status ended,
\* draw_in_progress False, winners_selected_at and draw_completed_at empty
\* and total_entries 0, which are the conditions both selection handlers
\* test before they select.
C26_ResetFrame ==
    [][\A r \in Reqs :
        /\ (dpc[r] = "idle" /\
              \/ dpc'[r] = "input"
              \/ /\ response'.to = r
                 /\ response'.outcome \in {"no_winners", "dry_run"}
                 /\ <<response, dkind>>' # <<response, dkind>>) =>
                UNCHANGED <<challenge, winners>>
        /\ (dpc[r] = "input" /\ dpc'[r] = "idle") =>
            IF response'.outcome = "cancelled"
            THEN UNCHANGED <<challenge, winners>>
            ELSE /\ dkind[r] = "reset --confirm"
                 /\ winners' = {}
                 /\ challenge'.status = "ended"
                 /\ ~challenge'.draw_in_progress
                 /\ challenge'.winners_selected_at = NoTime
                 /\ challenge'.draw_completed_at = NoTime
                 /\ challenge'.total_entries = 0]_vars
C26_Witness ==
    /\ response.outcome = "reset"
    /\ winners = {}
    /\ challenge.status = "ended"
    /\ challenge.number_of_winners = 2

(***************************************************************************)
(* Entering a challenge and the draw that follows (views.py                *)
(* enter_challenge, models.py Challenge.select_winners)                    *)
(***************************************************************************)
\* enter_challenge: the challenge must be active, the profile must have no
\* entry yet and must be among the eligible profiles; the entry records the
\* weight (a DecimalField of two places) and what it was computed from
enter_challenge(p) ==
    /\ challenge.status = "active"
    /\ ~\E e \in entries : e.profile = p
    /\ p \in get_eligible_profiles(challenge)
    /\ entries' = entries \cup
          {[profile |-> p,
            entry_weight |-> two_decimal_places(calculate_entry_weight(challenge, p)),
            points_at_entry |-> points[p],
            referrals_at_entry |-> successful_referrals_count(p)]}
    /\ UNCHANGED <<now, profVars, chVars, cardVars, scanVars, saveVars, calcVars,
                   pointVars, giftVars>>

InitEntry ==
    /\ now = 1
    /\ points = [p \in Profiles |-> IF p = "p1" THEN 1107 ELSE 2000]
    /\ profile_completed = [p \in Profiles |-> TRUE]
    /\ scans = {}
    /\ challenge = [NewChallenge EXCEPT !.status = "active",
                                       !.number_of_winners = MaxWinners,
                                       !.min_points_required = 1000]
    /\ DrawsIdle
    /\ packs = NewPacks
    /\ collections = NewCollections(NoCollection, 3)
    /\ ucc = {}
    /\ completions = {}
    /\ partner_total = 0
    /\ ledger = {}
    /\ ScansIdle
    /\ SavesIdle
    /\ NoEntries
    /\ PointsIdle
    /\ GiftsIdle
    /\ calc = NoCalc

NextEntry ==
    \/ \E p \in {"p1", "p2"} : enter_challenge(p)
    \/ redeem_reward_htmx("r1", "p1")
    \/ redeem_reward_commit("r1")
    \/ \E r \in Reqs : challenge_select_winners_ajax(r)
    \/ \E r \in Reqs : ajax_existing_winners(r)
    \/ \E r \in Reqs : select_winners(r)
    \/ \E r \in Reqs : create_winner(r)
    \/ \E r \in Reqs : save_winners_selected(r)

SpecEntry == InitEntry /\ [][NextEntry]_vars

\* C22 as stated: the pool of a draw is the set of profiles that are eligible
\* when the draw evaluates it, whatever ChallengeEntry rows exist, and the
\* entry_weight recorded on a winner row equals the weight computed from the
\* points and referrals the profile has at that time.
C22_WeightAtDrawTime ==
    [][\A r \in Reqs :
        /\ (dpc[r] = "select" /\ dpc'[r] = "create") =>
              /\ DOMAIN dprofiles'[r] = get_eligible_profiles(dself[r])
              /\ \A p \in DOMAIN dprofiles'[r] : dprofiles'[r][p] = points[p]
        /\ dpc[r] = "create" =>
              \A w \in drecs'[r] \ drecs[r] :
                 /\ w.profile \in DOMAIN dprofiles[r]
                 /\ w.entry_weight =
                        entry_weight(dself[r], dprofiles[r][w.profile],
                                     successful_referrals_count(w.profile))]_vars

\* C22, amended: the same, with the recorded entry_weight equal to that
\* weight rounded to two decimal places.
C22_RoundedWeightAtDrawTime ==
    [][\A r \in Reqs :
        /\ (dpc[r] = "select" /\ dpc'[r] = "create") =>
              /\ DOMAIN dprofiles'[r] = get_eligible_profiles(dself[r])
              /\ \A p \in DOMAIN dprofiles'[r] : dprofiles'[r][p] = points[p]
        /\ dpc[r] = "create" =>
              \A w \in drecs'[r] \ drecs[r] :
                 /\ w.profile \in DOMAIN dprofiles[r]
                 /\ w.entry_weight = two_decimal_places(
                        entry_weight(dself[r], dprofiles[r][w.profile],
                                     successful_referrals_count(w.profile)))]_vars
C22_Witness ==
    /\ challenge.status = "winners_selected"
    /\ \E e \in entries : e.profile \notin get_eligible_profiles(challenge)
    /\ \E w \in winners : \E e \in entries :
          /\ e.profile = w.profile
          /\ e.entry_weight # w.entry_weight
          /\ w.entry_weight # calculate_entry_weight(challenge, w.profile)

\* C23: when a draw succeeds, total_entries on every ChallengeWinner row it
\* created and on the challenge equals the number of eligible profiles in
\* the pool the draw evaluated.
C23_TotalEntriesIsPoolSize ==
    [][\A r \in Reqs :
        /\ (dpc[r] = "select" /\ dpc'[r] = "create") =>
              DOMAIN dprofiles'[r] = get_eligible_profiles(dself[r])
        /\ (dpc[r] = "save" /\ dpc'[r] = "idle") =>
              /\ challenge'.total_entries = Cardinality(DOMAIN dprofiles[r])
              /\ \A w \in drecs[r] :
                    w.total_entries = Cardinality(DOMAIN dprofiles[r])]_vars
C23_Witness ==
    /\ response.outcome = "selected"
    /\ challenge.status = "winners_selected"
    /\ challenge.total_entries = 2
    /\ Cardinality(entries) = 1
    /\ \A w \in winners : w.total_entries = 2
    /\ Cardinality(winners) = 2


\* ---------------------------------------------------------------------
\* Card gifts: claim_card_gift (views.py 3302-3322) and CardGift.claim
\* (models.py 1167-1185). The view loads the gift, claim() tests is_claimed
\* of that loaded object and writes; there is no transaction and no lock.
\* ---------------------------------------------------------------------

notGift == <<now, profVars, chVars, packs, collections, completions, partner_total,
             ledger, scanVars, saveVars, calcVars, entryVars, pointVars>>

\* claim_card_gift up to the call of gift.claim: get_object_or_404, then the
\* redirect of an anonymous user (user = NoProfile) to the login page
claim_card_gift(r, user, token) ==
    LET found == {g \in gifts : g.token = token}
    IN /\ gpc[r] = "idle"
       /\ IF found = {}
          THEN /\ gself' = [gself EXCEPT ![r] =
                               [token |-> token, profile |-> user, outcome |-> "404"]]
               /\ UNCHANGED gpc
          ELSE IF user = NoProfile
          THEN /\ gself' = [gself EXCEPT ![r] =
                               [token |-> token, profile |-> user, outcome |-> "login"]]
               /\ UNCHANGED gpc
          ELSE /\ gself' = [gself EXCEPT ![r] =
                               [token |-> token, profile |-> user,
                                gift |-> CHOOSE g \in found : TRUE,
                                outcome |-> "none"]]
               /\ gpc' = [gpc EXCEPT ![r] = "claim"]
       /\ gself'[r] # gself[r]
       /\ UNCHANGED <<gifts, ucc>>
       /\ UNCHANGED notGift

\* CardGift.claim(profile) on the object the view loaded, and the redirect
\* that follows. get_or_create raises MultipleObjectsReturned when the
\* profile has more than one row of the card; the view catches it.
claim(r) ==
    LET self == gself[r].gift
        profile == gself[r].profile
        rows == {u \in ucc : u.profile = profile /\ u.card = self.card}
        created == rows = {}
        user_card == [pk |-> Cardinality(ucc) + 1, profile |-> profile,
                      card |-> self.card, from_pack |-> NoCode,
                      is_duplicate |-> ~created]
        saved == [self EXCEPT !.receiver = profile, !.is_claimed = TRUE,
                              !.claimed_at = now]
        done(outcome) == [token |-> self.token, profile |-> profile,
                          outcome |-> outcome]
    IN /\ gpc[r] = "claim"
       /\ gpc' = [gpc EXCEPT ![r] = "idle"]
       /\ IF self.is_claimed
          THEN /\ gself' = [gself EXCEPT ![r] = done("Already claimed")]
               /\ UNCHANGED <<gifts, ucc>>
          ELSE IF Cardinality(rows) > 1
          THEN /\ gself' = [gself EXCEPT ![r] = done("Error claiming gift")]
               /\ UNCHANGED <<gifts, ucc>>
          ELSE /\ ucc' = ucc \cup {user_card}
               /\ gifts' = {g \in gifts : g.token # self.token} \cup {saved}
               /\ gself' = [gself EXCEPT ![r] = done("claimed")]
       /\ UNCHANGED notGift

\* two unclaimed gifts; p1 has one row of card 1 and p3 has two
InitGift ==
    /\ now = 1
    /\ points = [p \in Profiles |-> 0]
    /\ profile_completed = [p \in Profiles |-> TRUE]
    /\ scans = {}
    /\ challenge = NewChallenge
    /\ DrawsIdle
    /\ packs = NewPacks
    /\ collections = NewCollections(NoCollection, 3)
    /\ ucc = {[pk |-> 1, profile |-> "p1", card |-> 1, from_pack |-> NoCode,
               is_duplicate |-> FALSE],
              [pk |-> 2, profile |-> "p3", card |-> 1, from_pack |-> NoCode,
               is_duplicate |-> FALSE],
              [pk |-> 3, profile |-> "p3", card |-> 1, from_pack |-> NoCode,
               is_duplicate |-> TRUE]}
    /\ completions = {}
    /\ partner_total = 0
    /\ ledger = {}
    /\ ScansIdle
    /\ SavesIdle
    /\ NoEntries
    /\ PointsIdle
    /\ gifts = {[token |-> "t1", sender |-> "p2", receiver |-> NoProfile, card |-> 1,
                 is_claimed |-> FALSE, claimed_at |-> 0],
                [token |-> "t2", sender |-> "p1", receiver |-> NoProfile, card |-> 2,
                 is_claimed |-> FALSE, claimed_at |-> 0]}
    /\ gpc = [r \in Reqs |-> "idle"]
    /\ gself = [r \in Reqs |-> NoGiftClaim]
    /\ calc = NoCalc

NextGift ==
    \/ \E r \in Reqs : \E user \in Profiles \cup {NoProfile} :
          \E token \in {"t0", "t1", "t2"} : claim_card_gift(r, user, token)
    \/ \E r \in Reqs : claim(r)

SpecGift == InitGift /\ [][NextGift]_vars

\* C30: a CardGift is claimed at most once. A claim attempt on a gift that
\* is already claimed fails with "Already claimed" and adds no card row, and
\* a successful claim adds exactly one UserCardCollection row to the
\* claimant, flagged duplicate iff the claimant already had a row of the
\* card; also when two claims of one token run concurrently.
C30_ClaimedAtMostOnce ==
    [][\A r \in Reqs :
        (gpc[r] = "claim" /\ gpc'[r] = "idle") =>
           LET profile == gself[r].profile
               gift == CHOOSE g \in gifts : g.token = gself[r].token
               had == \E u \in ucc : u.profile = profile /\ u.card = gift.card
           IN  IF gift.is_claimed
               THEN /\ gself'[r].outcome = "Already claimed"
                    /\ UNCHANGED <<gifts, ucc>>
               ELSE IF gself'[r].outcome = "claimed"
               THEN /\ Cardinality(ucc' \ ucc) = 1
                    /\ ucc \subseteq ucc'
                    /\ \A u \in ucc' \ ucc :
                          /\ u.profile = profile
                          /\ u.card = gift.card
                          /\ u.is_duplicate = had
                    /\ \E g \in gifts' :
                          /\ g.token = gift.token
                          /\ g.is_claimed
                          /\ g.receiver = profile
               ELSE UNCHANGED <<gifts, ucc>>]_vars

====
